---- MODULE Spec2Model ----
(***************************************************************************)
(* Instance lifecycle workflows of the z/VM compute driver                 *)
(* (nova/virt/zvm/driver.py, nova/virt/zvm/instance.py) run against an     *)
(* xCAT management node whose requests may fail.                           *)
(*                                                                         *)
(* Names and userids are tuples of characters so that the 'rsz' prefixing  *)
(* and the old_userid[3:] slicing of the resize code are computed as the   *)
(* code computes them.                                                     *)
(***************************************************************************)
EXTENDS Integers, Sequences, FiniteSets, TLC

(* ------------------------------ bounds -------------------------------- *)
\* number of driver calls made one after another in one behaviour
MaxOps == 2
\* largest network_info (number of vifs) handed to a call
MaxVif == 1
\* largest block device mapping (number of persistent volumes)
MaxVol == 1

(* ------------------------- names and userids -------------------------- *)
\* instance['name'] of the instance the calls are about
InstName == <<"o", "s", "0", "1">>

RszPrefix == <<"r", "s", "z">>

\* ''.join(('rsz', instance['name']))
RszName(name) == RszPrefix \o name

\* old_userid.startswith("rsz")
StartsWithRsz(s) == Len(s) >= 3 /\ SubSeq(s, 1, 3) = RszPrefix

\* new_userid of finish_migration
NewUserid(old_userid, name) ==
    IF StartsWithRsz(old_userid) THEN name
    ELSE RszPrefix \o SubSeq(old_userid, 4, Len(old_userid))

NodeNames == {InstName, RszName(InstName)}

Userids == {InstName, NewUserid(InstName, InstName)}

\* the zhcp of this compute host; every node the driver creates carries it
ThisHcp == "zhcp"

NoNode == [userid |-> <<>>, hcp |-> "", hosts |-> FALSE]

NodeRecs == [userid : Userids, hcp : {ThisHcp}, hosts : BOOLEAN]

(* ----------------------------- exceptions ----------------------------- *)
Exc(c, m) == [cls |-> c, msg |-> m]

Ok == Exc("ok", "")

\* exception classes of nova.virt.zvm.exception, all derived from
\* ZVMBaseException ("any zvm driver exceptions")
ZVMBaseException ==
    {"ZVMXCATRequestFailed", "ZVMXCATInternalError",
     "ZVMInvalidXCATResponseDataError", "ZVMDriverError",
     "ZVMXCATCreateNodeFailed", "ZVMXCATCreateUserIdFailed",
     "ZVMXCATUpdateNodeFailed", "ZVMXCATDeployNodeFailed",
     "ZVMNetworkError", "ZVMVolumeError", "ZVMImageError",
     "ZVMXCATXdshFailed"}

\* what zvmutils.xcat_request raises when the request fails for a reason
\* the caller does not single out
XcatRequestErrors ==
    {Exc("ZVMXCATRequestFailed", "other"),
     Exc("ZVMXCATInternalError", "other"),
     Exc("ZVMInvalidXCATResponseDataError", "")}

\* except_xcat_call_failed_and_reraise(exc): a failed xCAT call is re-raised
\* as exc
Reraised(cls) == {Exc(cls, "")}

\* failures of the network operator (networkop)
NetworkErrors == {Exc("ZVMNetworkError", "")}

\* failures of the volume operator (volumeop)
VolumeErrors == {Exc("ZVMVolumeError", "")}

\* failures of the image operator (imageop)
ImageErrors == {Exc("ZVMImageError", "")}

(* ------------------------------- state -------------------------------- *)
VARIABLES
    node,       \* xCAT node definitions: NodeNames -> NodeRecs \cup {NoNode}
    users,      \* z/VM userids that exist in the user directory
    op,         \* the driver call in progress, "none" between calls
    pc,         \* position inside the call
    exc,        \* the exception being propagated, Ok when none
    args,       \* the arguments of the call in progress
    done,       \* forward steps of the call that completed, in order
    comps,      \* compensating actions the call invoked, in order
    reqs,       \* the set of mutating requests destroy and the handlers sent
    info,       \* what destroy observed (lookup and failures)
    failedAt,   \* the forward step that raised, "none" if none did
    orig,       \* the exception that step raised, Ok if none did
    last,       \* the call that finished before this one
    calls,      \* the number of calls finished
    poll,       \* the polling loop in progress (FixedIntervalLoopingCall)
    mig,        \* the migrate_disk_and_power_off call in progress
    lm,         \* the live-migration call in progress
    vd,         \* the device-address allocation in progress
    ctx,        \* the disk_info handed from the source to the destination
    rv,         \* the confirm_migration or finish_revert_migration call
    rg,         \* the re_grant_user run in progress
    cap,        \* the _capture_disk_for_instance call in progress
    gi,         \* the get_info call in progress
    sn,         \* the snapshot call in progress
    rb,         \* the reboot call in progress
    du,         \* the delete_userid call in progress
    ng          \* the _is_nic_granted call in progress

\* the variables of the driver calls against the xCAT domain
wfvars == <<node, users, op, pc, exc, args, done, comps, reqs, info, failedAt,
            orig, last, calls>>

\* the variables of the operations that are followed on their own
early == <<poll, mig, lm, vd>>

later == <<ctx, rv, rg, cap, gi>>

late == <<sn, rb, du, ng>>

side == <<early, later, late>>

vars == <<wfvars, side>>

Req(r, n) == [rq |-> r, tgt |-> n]

NoInfo == [found |-> "none", userid |-> <<>>, detachFailed |-> FALSE,
           cleanFailed |-> FALSE, ranDelete |-> FALSE, returned |-> FALSE,
           accepted |-> FALSE, reachable |-> FALSE]

NoArgs == [nvif |-> 0, nvol |-> 0]

Absent(nd, us, name) == nd[name] = NoNode /\ name \notin us

(* ------------------------ remote domain (xCAT) ------------------------ *)
\* a lookup that finds every name
instance_always_exists(nd, name) == TRUE

\* list_instances / instance_exists: the nodes of the zvm table whose hcp is
\* this host's
instance_exists(nd, name) == nd[name] # NoNode /\ nd[name].hcp = ThisHcp

\* replies of DELETE rmdef
RmdefReplies(nd, name) ==
    (IF nd[name] # NoNode THEN {Ok}
     ELSE {Exc("ZVMXCATInternalError", "Could not find an object")})
    \cup XcatRequestErrors

\* replies of DELETE rmvm
RmvmReplies(nd, us, name) ==
    (IF nd[name] = NoNode
        THEN {Exc("ZVMXCATRequestFailed",
                  "Invalid nodes and/or groups; Forbidden")}
     ELSE IF nd[name].userid \notin us
        THEN {Exc("ZVMXCATInternalError", "Return Code: 400 Reason Code: 4")}
     ELSE {Ok,
           Exc("ZVMXCATInternalError", "Return Code: 400 Reason Code: 16"),
           Exc("ZVMXCATInternalError", "Return Code: 400 Reason Code: 12")})
    \cup XcatRequestErrors

\* effect of a successful rmvm: the userid and the xCAT node are removed
RmvmEffect(nd, us, name) ==
    [node |-> [nd EXCEPT ![name] = NoNode], users |-> us \ {nd[name].userid}]

Out(nd, us, res, rq) == [node |-> nd, users |-> us, res |-> res, reqs |-> rq]

\* a delete_xcat_node that returns without sending rmdef
delete_xcat_node_skipped(nd, us, name) == {Out(nd, us, Ok, {})}

(* ZVMInstance.delete_xcat_node *)
delete_xcat_node(nd, us, name) ==
    { IF r = Ok
         THEN Out([nd EXCEPT ![name] = NoNode], us, Ok, {Req("rmdef", name)})
      ELSE IF r.cls = "ZVMXCATInternalError"
              /\ r.msg = "Could not find an object"
         THEN Out(nd, us, Ok, {Req("rmdef", name)})
      ELSE Out(nd, us, r, {Req("rmdef", name)})
      : r \in RmdefReplies(nd, name) }

\* a test that takes only Reason Code 16 for a lock
LockedOnlyOn16(r) ==
    /\ r.cls = "ZVMXCATInternalError"
    /\ r.msg = "Return Code: 400 Reason Code: 16"

\* "Return Code: 400" with "Reason Code: 16" or "Reason Code: 12": the vm
\* or a device of it is locked
Locked(r) ==
    /\ r.cls = "ZVMXCATInternalError"
    /\ r.msg \in {"Return Code: 400 Reason Code: 16",
                  "Return Code: 400 Reason Code: 12"}

\* the second DELETE of delete_userid, after _wait_for_unlock: whatever it
\* raises propagates
RetryDelete(nd, us, name) ==
    { IF r = Ok
         THEN Out(RmvmEffect(nd, us, name).node, RmvmEffect(nd, us, name).users,
                  Ok, {Req("rmvm", name), Req("rmvm", name)})
      ELSE Out(nd, us, r, {Req("rmvm", name), Req("rmvm", name)})
      : r \in RmvmReplies(nd, us, name) }

(* ZVMInstance.delete_userid *)
delete_userid(nd, us, name) ==
    UNION {
      IF r = Ok
         THEN {Out(RmvmEffect(nd, us, name).node,
                   RmvmEffect(nd, us, name).users, Ok, {Req("rmvm", name)})}
      ELSE IF r.cls = "ZVMXCATInternalError"
              /\ r.msg = "Return Code: 400 Reason Code: 4"
         THEN { [o EXCEPT !.reqs = {Req("rmvm", name)} \cup o.reqs]
                : o \in delete_xcat_node(nd, us, name) }
      ELSE IF Locked(r)
         THEN \* is_locked (xdsh) of _wait_for_unlock may itself fail
              {Out(nd, us, Exc("ZVMXCATXdshFailed", ""), {Req("rmvm", name)})}
              \cup RetryDelete(nd, us, name)
      ELSE IF r.cls = "ZVMXCATRequestFailed"
              /\ r.msg = "Invalid nodes and/or groups; Forbidden"
         THEN {Out(nd, us, Ok, {Req("rmvm", name)})}
      ELSE {Out(nd, us, r, {Req("rmvm", name)})}
      : r \in RmvmReplies(nd, us, name) }

(* ZVMDriver._detach_volume_from_instance: the requests sent, whether a    *)
(* detach failed, and the exception that leaves the function (Ok if none).  *)
(* ZVMVolumeError is caught per volume; an error of instance_exists or      *)
(* is_reachable leaves the loop.                                            *)
RECURSIVE _detach_volume_from_instance(_, _)
_detach_volume_from_instance(name, n) ==
    IF n = 0 THEN {[reqs |-> {}, failed |-> FALSE, res |-> Ok]}
    ELSE LET rest == _detach_volume_from_instance(name, n - 1)
             rq   == {Req("detach_volume", name)}
         IN  \* detached
             { [o EXCEPT !.reqs = rq \cup o.reqs] : o \in rest }
             \cup
             \* ZVMVolumeError: logged, next volume
             { [o EXCEPT !.reqs = rq \cup o.reqs, !.failed = TRUE] : o \in rest }
             \cup
             \* instance_exists / is_reachable raised before the request
             { [reqs |-> {}, failed |-> TRUE, res |-> e]
               : e \in XcatRequestErrors }

(* the clean_mac_switch_host loop of destroy, one request per vif *)
RECURSIVE CleanLoop(_, _)
CleanLoop(name, n) ==
    IF n = 0 THEN {[reqs |-> {}, res |-> Ok, cleaned |-> FALSE]}
    ELSE LET rq == {Req("clean_mac_switch_host", name)}
         IN  { [o EXCEPT !.reqs = rq \cup o.reqs, !.cleaned = TRUE]
               : o \in CleanLoop(name, n - 1) }
             \cup { [reqs |-> rq, res |-> e, cleaned |-> FALSE]
                    : e \in NetworkErrors }

\* clean_mac_switch_host removes the node's mac, switch and hosts records
Cleaned(nd, name, c) ==
    IF c.cleaned /\ nd[name] # NoNode
       THEN [nd EXCEPT ![name].hosts = FALSE] ELSE nd

\* except clause around _detach_volume_from_instance in destroy
DestroyDetachCaught == ZVMBaseException

\* a clause that catches nothing
DestroyCleanCaughtNothing == {}

\* except clause around the clean_mac_switch_host loop in destroy
DestroyCleanCaught == {"ZVMNetworkError"}

DOut(nd, us, res, rq, inf) ==
    [node |-> nd, users |-> us, res |-> res, reqs |-> rq, info |-> inf]

(* ZVMDriver.destroy *)
destroy(nd, us, name, nvif, nvol) ==
    \* list_instances failed
    { DOut(nd, us, e, {}, [NoInfo EXCEPT !.found = "error"])
      : e \in XcatRequestErrors }
    \cup
    (IF ~instance_exists(nd, name)
        THEN {DOut(nd, us, Ok, {},
                   [NoInfo EXCEPT !.found = "no", !.returned = TRUE])}
     ELSE UNION { UNION {
            LET inf == [NoInfo EXCEPT
                          !.found = "yes",
                          !.userid = nd[name].userid,
                          !.detachFailed = d.failed \/ d.res # Ok,
                          !.cleanFailed = c.res # Ok]
            IN  IF d.res # Ok /\ d.res.cls \notin DestroyDetachCaught
                   THEN {DOut(nd, us, d.res, d.reqs,
                              [inf EXCEPT !.cleanFailed = FALSE])}
                ELSE IF c.res # Ok /\ c.res.cls \notin DestroyCleanCaught
                   THEN {DOut(Cleaned(nd, name, c), us, c.res,
                              d.reqs \cup c.reqs, inf)}
                ELSE { DOut(o.node, o.users, o.res,
                            d.reqs \cup c.reqs \cup o.reqs,
                            [inf EXCEPT !.ranDelete = TRUE,
                                        !.returned = (o.res = Ok)])
                       : o \in delete_userid(Cleaned(nd, name, c), us, name) }
            : c \in CleanLoop(name, nvif) }
            : d \in _detach_volume_from_instance(name, nvol) })

(* ------------------------------ calls --------------------------------- *)
Begin(o, a) ==
    /\ op = "none"
    /\ calls < MaxOps
    /\ op' = o
    /\ args' = a

\* the call a finished behaviour leaves in last, calls
Entry ==
    [op |-> op, res |-> pc,
     found |-> IF op = "destroy" THEN info.found ELSE "none"]

NoCall == [op |-> "none", res |-> "", found |-> "none"]

\* the caller takes the result; the driver keeps nothing across calls
Finish ==
    /\ op # "none"
    /\ pc \in {"returned", "raised"}
    /\ last' = Entry
    /\ calls' = calls + 1
    /\ op' = "none"
    /\ pc' = "idle"
    /\ exc' = Ok
    /\ args' = NoArgs
    /\ done' = <<>>
    /\ comps' = <<>>
    /\ reqs' = {}
    /\ info' = NoInfo
    /\ failedAt' = "none"
    /\ orig' = Ok
    /\ UNCHANGED <<node, users, side>>

(* a caller invokes destroy(instance, network_info, block_device_info) *)
Destroy ==
    /\ \E nvif \in 0..MaxVif, nvol \in 0..MaxVol :
          Begin("destroy", [nvif |-> nvif, nvol |-> nvol])
    /\ \E o \in destroy(node, users, InstName, args'.nvif, args'.nvol) :
          /\ node' = o.node
          /\ users' = o.users
          /\ reqs' = o.reqs
          /\ info' = o.info
          /\ exc' = o.res
          /\ pc' = IF o.res = Ok THEN "returned" ELSE "raised"
    /\ UNCHANGED <<done, comps, failedAt, orig, last, calls, side>>

(* --------------------------- power and waits -------------------------- *)
\* replies of PUT rpower on
PowerOnReplies ==
    {Ok, Exc("ZVMXCATInternalError", "Return Code: 200 Reason Code: 8")}
    \cup XcatRequestErrors

\* how _wait_for_reachable ends: the instance answered, the deadline passed
\* (self._reachable stays False), or is_reachable raised
WaitReachableEnds ==
    {Exc("reachable", ""), Exc("timeout", "")} \cup XcatRequestErrors

(* ZVMInstance.power_on *)
power_on ==
    UNION {
      IF r.cls = "ZVMXCATInternalError"
         /\ r.msg = "Return Code: 200 Reason Code: 8"
         THEN \* already active: returns without waiting
              {[res |-> Ok, accepted |-> FALSE, reachable |-> FALSE]}
      ELSE IF r = Ok \/ r.cls = "ZVMXCATInternalError"
         THEN \* any other ZVMXCATInternalError is dropped by the except clause
              { [res |-> IF w.cls = "reachable" THEN Ok
                         ELSE IF w.cls = "timeout"
                            THEN Exc("InstancePowerOnFailure", "timeout")
                         ELSE w,
                 accepted |-> r = Ok,
                 reachable |-> w.cls = "reachable"]
                : w \in WaitReachableEnds }
      ELSE {[res |-> r, accepted |-> FALSE, reachable |-> FALSE]}
      : r \in PowerOnReplies }

\* results of _is_nic_granted: the answer, or the error of
\* _get_user_directory
IsNicGrantedResults ==
    {Exc("granted", ""), Exc("not granted", "")} \cup XcatRequestErrors

\* excutils.save_and_reraise_exception: the saved exception is re-raised
\* unless the block raised, and then the block's exception propagates
save_and_reraise_exception(saved, block) == IF block = Ok THEN saved ELSE block

(* ------------------------------- spawn -------------------------------- *)
SpawnArgs == [nvif : 0..MaxVif, nvol : 0..MaxVol]

NewNode(name) == [userid |-> name, hcp |-> ThisHcp, hosts |-> FALSE]

InSpawn(p) == op = "spawn" /\ pc = p

Advance(step, next) ==
    /\ done' = Append(done, step)
    /\ pc' = next
    /\ UNCHANGED <<exc, failedAt, orig>>

\* step raises e, which the handler at position h receives
RaiseTo(step, e, h) ==
    /\ exc' = e
    /\ orig' = e
    /\ failedAt' = step
    /\ pc' = h
    /\ UNCHANGED done

Raise(step, e) == RaiseTo(step, e, "except")

Frame == UNCHANGED <<op, args, comps, reqs, info, last, calls, side>>

\* precondition checks placed inside the try statement
SpawnRejectedToHandlers == "except"

\* the precondition checks stand before the try statement: what they raise
\* leaves spawn
SpawnRejected == "raised"

\* spawn is called for a new instance; the precondition checks of
\* lines 297-310 raise before anything is sent
Spawn ==
    /\ Absent(node, users, InstName)
    /\ \E a \in SpawnArgs : Begin("spawn", a)
    /\ \E boot_from_volume \in BOOLEAN, zimage_ok \in BOOLEAN :
          IF boot_from_volume \/ args'.nvif = 0
             THEN exc' = Exc("ZVMDriverError", "") /\ pc' = SpawnRejected
          ELSE IF ~zimage_ok
             THEN exc' = Exc("ZVMImageError", "") /\ pc' = SpawnRejected
          ELSE exc' = Ok /\ pc' = "create_xcat_node"
    /\ failedAt' = IF exc' # Ok THEN "validate" ELSE "none"
    /\ orig' = exc'
    /\ done' = <<>>
    /\ comps' = <<>>
    /\ reqs' = {}
    /\ info' = NoInfo
    /\ UNCHANGED <<node, users, last, calls, side>>

\* zvm_inst.create_xcat_node(zhcp); a failed mkdef may or may not have
\* written the definition
SpawnCreateXcatNode ==
    /\ InSpawn("create_xcat_node")
    /\ \/ /\ node' = [node EXCEPT ![InstName] = NewNode(InstName)]
          /\ Advance("create_xcat_node", "preset_network")
       \/ \E e \in Reraised("ZVMXCATCreateNodeFailed"), written \in BOOLEAN :
             /\ node' = IF written
                           THEN [node EXCEPT ![InstName] = NewNode(InstName)]
                        ELSE node
             /\ Raise("create_xcat_node", e)
    /\ UNCHANGED users
    /\ Frame

\* self._preset_instance_network(zvm_inst._name, network_info)
SpawnPresetNetwork ==
    /\ InSpawn("preset_network")
    /\ \/ /\ node' = [node EXCEPT ![InstName].hosts = TRUE]
          /\ Advance("preset_network", "import_image")
       \/ \E e \in NetworkErrors :
             /\ Raise("preset_network", e)
             /\ UNCHANGED node
    /\ UNCHANGED users
    /\ Frame

\* _import_image_to_nova / image_exist_xcat / _import_image_to_xcat
SpawnImportImage ==
    /\ InSpawn("import_image")
    /\ \/ Advance("import_image", "create_userid")
       \/ \E e \in ImageErrors : Raise("import_image", e)
    /\ UNCHANGED <<node, users>>
    /\ Frame

\* zvm_inst.create_userid: every failure is re-raised as
\* ZVMXCATCreateUserIdFailed; add_mdisk or _set_ipl may fail after mkvm
\* created the userid
SpawnCreateUserid ==
    /\ InSpawn("create_userid")
    /\ \/ /\ users' = users \cup {node[InstName].userid}
          /\ Advance("create_userid", "update_node_info")
       \/ \E e \in Reraised("ZVMXCATCreateUserIdFailed"), created \in BOOLEAN :
             /\ users' = IF created THEN users \cup {node[InstName].userid}
                         ELSE users
             /\ Raise("create_userid", e)
    /\ UNCHANGED node
    /\ Frame

\* zvm_inst.update_node_info(image_meta)
SpawnUpdateNodeInfo ==
    /\ InSpawn("update_node_info")
    /\ \/ Advance("update_node_info", "create_nic")
       \/ \E e \in Reraised("ZVMXCATUpdateNodeFailed") :
             Raise("update_node_info", e)
    /\ UNCHANGED <<node, users>>
    /\ Frame

NicsCreated == Len(SelectSeq(done, LAMBDA x : x = "create_nic"))

\* one turn of the create_nic loop over network_info
SpawnCreateNic ==
    /\ InSpawn("create_nic")
    /\ \/ Advance("create_nic",
                  IF NicsCreated + 1 = args.nvif THEN "deploy_node"
                  ELSE "create_nic")
       \/ \E e \in NetworkErrors : Raise("create_nic", e)
    /\ UNCHANGED <<node, users>>
    /\ Frame

\* get_imgname_xcat (a GET) and zvm_inst.deploy_node
SpawnDeployNode ==
    /\ InSpawn("deploy_node")
    /\ \/ Advance("deploy_node", "punch_files")
       \/ \E e \in Reraised("ZVMXCATDeployNodeFailed") \cup XcatRequestErrors :
             Raise("deploy_node", e)
    /\ UNCHANGED <<node, users>>
    /\ Frame

\* punch_adminpass_file, punch_xcat_auth_file, punch_eph_info_file
SpawnPunchFiles ==
    /\ InSpawn("punch_files")
    /\ \/ Advance("punch_files", "wait_for_addnic")
       \/ \E e \in XcatRequestErrors : Raise("punch_files", e)
    /\ UNCHANGED <<node, users>>
    /\ Frame

\* power-on directly after the grant
SpawnAfterGrantPowerOn(nvol) == "power_on"

\* after the grant: _attach_volume_to_instance loops over the block device
\* mapping, then zvm_inst.power_on()
SpawnAfterGrant(nvol) == IF nvol = 0 THEN "power_on" ELSE "attach_volume"

\* self._wait_for_addnic, then "if not self._is_nic_granted: raise
\* ZVMNetworkError"
SpawnWaitForAddnic ==
    /\ InSpawn("wait_for_addnic")
    /\ \E g \in IsNicGrantedResults :
          IF g.cls = "granted"
             THEN Advance("wait_for_addnic", SpawnAfterGrant(args.nvol))
          ELSE IF g.cls = "not granted"
             THEN Raise("wait_for_addnic", Exc("ZVMNetworkError", ""))
          ELSE Raise("wait_for_addnic", g)
    /\ UNCHANGED <<node, users>>
    /\ Frame

VolumesAttached == Len(SelectSeq(done, LAMBDA x : x = "attach_volume"))

\* one turn of _attach_volume_to_instance: instance_exists and is_reachable
\* are queries, the attach is the volume operator's
SpawnAttachVolume ==
    /\ InSpawn("attach_volume")
    /\ \/ Advance("attach_volume",
                  IF VolumesAttached + 1 = args.nvol THEN "power_on"
                  ELSE "attach_volume")
       \/ \E e \in VolumeErrors \cup XcatRequestErrors :
             Raise("attach_volume", e)
    /\ UNCHANGED <<node, users>>
    /\ Frame

\* zvm_inst.power_on(), then instance.save()
SpawnPowerOn ==
    /\ InSpawn("power_on")
    /\ \E p \in power_on :
          /\ IF p.res = Ok THEN Advance("power_on", "update_last_use_date")
             ELSE Raise("power_on", p.res)
          /\ info' = [info EXCEPT !.accepted = p.accepted,
                                  !.reachable = p.reachable]
    /\ UNCHANGED <<node, users>>
    /\ UNCHANGED <<op, args, comps, reqs, last, calls, side>>

\* the clause without ZVMXCATCreateNodeFailed
SpawnNodeCaughtImageOnly == {"ZVMImageError"}

\* except clause of lines 435-436
SpawnNodeCaught == {"ZVMXCATCreateNodeFailed", "ZVMImageError"}

\* except clause of lines 439-443
SpawnDestroyCaught ==
    {"ZVMXCATCreateUserIdFailed", "ZVMNetworkError", "ZVMVolumeError",
     "ZVMXCATUpdateNodeFailed", "ZVMXCATDeployNodeFailed"}

\* the except clauses and the finally of spawn
SpawnExcept ==
    /\ InSpawn("except")
    /\ IF exc.cls \in SpawnNodeCaught
          THEN \E o \in delete_xcat_node(node, users, InstName) :
                  /\ node' = o.node
                  /\ users' = o.users
                  /\ reqs' = reqs \cup o.reqs
                  /\ comps' = Append(comps, "delete_xcat_node")
                  /\ exc' = save_and_reraise_exception(exc, o.res)
                  /\ UNCHANGED info
       ELSE IF exc.cls \in SpawnDestroyCaught
          THEN \E o \in destroy(node, users, InstName, args.nvif, args.nvol) :
                  /\ node' = o.node
                  /\ users' = o.users
                  /\ reqs' = reqs \cup o.reqs
                  /\ comps' = Append(comps, "destroy")
                  /\ exc' = save_and_reraise_exception(exc, o.res)
                  /\ info' = o.info
       ELSE UNCHANGED <<node, users, reqs, comps, exc, info>>
    /\ pc' = "raised"
    /\ UNCHANGED <<op, args, done, failedAt, orig, last, calls, side>>

\* after the try statement: self._zvm_images.update_last_use_date
SpawnUpdateLastUseDate ==
    /\ InSpawn("update_last_use_date")
    /\ \/ /\ Advance("update_last_use_date", "returned")
       \/ \E e \in XcatRequestErrors :
             RaiseTo("update_last_use_date", e, "raised")
    /\ UNCHANGED <<node, users>>
    /\ Frame

(* -------------------------- finish_migration -------------------------- *)
\* POST mkdef: written; failed; failed although written
Mkdef(nd, name, rec) ==
    {[node |-> [nd EXCEPT ![name] = rec], res |-> Ok]}
    \cup { [node |-> IF written THEN [nd EXCEPT ![name] = rec] ELSE nd,
            res |-> e]
           : e \in Reraised("ZVMXCATCreateNodeFailed"), written \in BOOLEAN }

(* ZVMInstance.copy_xcat_node: self is dst, source_node_name is src.  The   *)
(* attributes are read with GET lsdef; postscripts, postbootscripts and     *)
(* hostnames are not copied.                                                *)
copy_xcat_node(nd, us, dst, src) ==
    { Out(nd, us, e, {}) : e \in XcatRequestErrors }
    \cup
    (IF nd[src] = NoNode
        THEN {Out(nd, us, Exc("ZVMXCATInternalError",
                              "Could not find an object"), {})}
     ELSE { Out(m.node, us, m.res, {Req("mkdef", dst)})
            : m \in Mkdef(nd, dst, [nd[src] EXCEPT !.hosts = FALSE]) })

\* a chain of compensations: the domain so far, the error that ended the
\* chain (Ok if none), the requests sent and the compensations invoked
Chain(nd, us) ==
    [node |-> nd, users |-> us, res |-> Ok, reqs |-> {}, comps |-> <<>>]

\* statements of one block run one after another until one raises
Then(S, F(_)) == UNION { IF o.res = Ok THEN F(o) ELSE {o} : o \in S }

Did(o, c, d) ==
    [node |-> d.node, users |-> d.users, res |-> d.res,
     reqs |-> o.reqs \cup d.reqs, comps |-> Append(o.comps, c)]

\* self._zvm_images.delete_image_from_xcat(image_name_xcat)
CDeleteImage(o) ==
    { Did(o, "delete_image_from_xcat",
          Out(o.node, o.users, r, {Req("rmimage", InstName)}))
      : r \in {Ok} \cup ImageErrors }

\* the clean_mac_switch_host loop of lines 1631-1636; ZVMNetworkError is
\* passed over
CCleanNetwork(o, name, nvif) ==
    { Did(o, "clean_mac_switch_host",
          Out(Cleaned(o.node, name, c), o.users, Ok, c.reqs))
      : c \in CleanLoop(name, nvif) }

CDeleteUserid(o, name) ==
    { Did(o, "delete_userid", d) : d \in delete_userid(o.node, o.users, name) }

CDeleteXcatNode(o, name) ==
    { Did(o, "delete_xcat_node", d)
      : d \in delete_xcat_node(o.node, o.users, name) }

CCopyXcatNode(o, dst, src) ==
    { Did(o, "copy_xcat_node", d)
      : d \in copy_xcat_node(o.node, o.users, dst, src) }

\* _reconfigure_networking: _preset_instance_network, _add_nic_to_instance,
\* then the two waits, which pass over driver errors
CReconfigureNetworking(o, name) ==
    { Did(o, "_reconfigure_networking",
          Out(o.node, o.users, e, {Req("preset_network", name)}))
      : e \in NetworkErrors }
    \cup
    { Did(o, "_reconfigure_networking",
          Out([o.node EXCEPT ![name].hosts = TRUE], o.users, r,
              {Req("preset_network", name), Req("create_nic", name)}))
      : r \in {Ok} \cup NetworkErrors }

\* "if not self._is_nic_granted: warn, else: if power_on:
\* new_inst.power_on()"
CPowerOnIfGranted(o, name, pwr) ==
    UNION {
      IF g.cls = "not granted" THEN {o}
      ELSE IF g.cls = "granted"
         THEN IF pwr
                 THEN { Did(o, "power_on",
                            Out(o.node, o.users, p.res,
                                {Req("rpower on", name)}))
                        : p \in power_on }
              ELSE {o}
      ELSE {[o EXCEPT !.res = g]}
      : g \in IsNicGrantedResults }

FinishMigrationArgs ==
    [nvif : 0..MaxVif, nvol : 0..MaxVol, same_xcat_mn : BOOLEAN,
     power_on : BOOLEAN, old_userid : Userids]

InFm(p) == op = "finish_migration" /\ pc = p

\* new_userid of the call in progress
new_userid == NewUserid(args.old_userid, InstName)

\* what a block guarded by save_and_reraise_exception leaves behind
Unwound(o) ==
    /\ node' = o.node
    /\ users' = o.users
    /\ reqs' = reqs \cup o.reqs
    /\ comps' = comps \o o.comps
    /\ exc' = save_and_reraise_exception(exc, o.res)

\* finish_migration is called on the destination: in the same xCAT MN the
\* instance is registered there with the userid that owns the disks, in
\* another one the name is unknown.  Lines 1518-1545.
FinishMigration ==
    /\ \E a \in FinishMigrationArgs :
          /\ IF a.same_xcat_mn
                THEN /\ node[InstName] # NoNode
                     /\ node[RszName(InstName)] = NoNode
                     /\ a.old_userid = node[InstName].userid
                     /\ a.old_userid \in users
             ELSE Absent(node, users, InstName)
          /\ Begin("finish_migration", a)
    /\ done' = <<>>
    /\ info' = NoInfo
    /\ \E disk_type_ok \in BOOLEAN :
          IF ~disk_type_ok
             THEN /\ failedAt' = "validate"
                  /\ orig' = Exc("MigrationError", "")
                  /\ pc' = "raised"
                  /\ IF args'.same_xcat_mn
                        THEN \E o \in CDeleteImage(Chain(node, users)) :
                                /\ reqs' = o.reqs
                                /\ comps' = o.comps
                                /\ exc' = IF o.res = Ok THEN orig' ELSE o.res
                     ELSE reqs' = {} /\ comps' = <<>> /\ exc' = orig'
          ELSE /\ failedAt' = "none"
               /\ orig' = Ok
               /\ exc' = Ok
               /\ reqs' = {}
               /\ comps' = <<>>
               /\ pc' = IF args'.same_xcat_mn THEN "clean_network"
                        ELSE "create_xcat_node"
    /\ UNCHANGED <<node, users, last, calls, side>>

\* same xCAT MN: "for vif in network_info: clean_mac_switch_host", outside
\* any try statement
FmCleanNetwork ==
    /\ InFm("clean_network")
    /\ \E c \in CleanLoop(InstName, args.nvif) :
          /\ node' = Cleaned(node, InstName, c)
          /\ IF c.res = Ok THEN Advance("clean_network", "clean_bundle")
             ELSE RaiseTo("clean_network", c.res, "raised")
    /\ UNCHANGED users
    /\ Frame

\* same xCAT MN: the image bundle is removed from the source compute node
\* (ssh rm) or from the local disk
FmCleanBundle ==
    /\ InFm("clean_bundle")
    /\ \/ Advance("clean_bundle", "copy_xcat_node")
       \/ RaiseTo("clean_bundle", Exc("ProcessExecutionError", ""), "raised")
    /\ UNCHANGED <<node, users>>
    /\ Frame

\* except clause of cleanup_xcat_image_for_migration
CleanupImageCaught == {"MigrationError"} \cup ZVMBaseException

\* same xCAT MN: old_inst.copy_xcat_node(new_inst._name) inside
\* cleanup_xcat_image_for_migration
FmCopyXcatNode ==
    /\ InFm("copy_xcat_node")
    /\ \E c \in copy_xcat_node(node, users, RszName(InstName), InstName) :
          /\ node' = c.node
          /\ IF c.res = Ok THEN Advance("copy_xcat_node", "update_node_def")
             ELSE RaiseTo("copy_xcat_node", c.res, "except_image")
    /\ UNCHANGED users
    /\ Frame

\* new_inst.update_node_def(zhcp, new_userid); in the same xCAT MN a failure
\* deletes the 'rsz' node, in another one the handler names old_inst, which
\* that branch never bound
FmUpdateNodeDef ==
    /\ InFm("update_node_def")
    /\ \/ /\ node' = [node EXCEPT ![InstName].userid = new_userid]
          /\ Advance("update_node_def",
                     IF args.same_xcat_mn THEN "preset_network"
                     ELSE "copy_image")
          /\ UNCHANGED <<users, comps, reqs>>
       \/ \E e \in Reraised("ZVMXCATUpdateNodeFailed") :
             /\ failedAt' = "update_node_def"
             /\ orig' = e
             /\ UNCHANGED done
             /\ IF args.same_xcat_mn
                   THEN /\ \E o \in CDeleteXcatNode(Chain(node, users),
                                                    RszName(InstName)) :
                              /\ node' = o.node
                              /\ users' = o.users
                              /\ reqs' = reqs \cup o.reqs
                              /\ comps' = comps \o o.comps
                              /\ exc' = save_and_reraise_exception(e, o.res)
                        /\ pc' = "except_image"
                ELSE /\ exc' = Exc("UnboundLocalError", "old_inst")
                     /\ pc' = "raised"
                     /\ UNCHANGED <<node, users, comps, reqs>>
    /\ UNCHANGED <<op, args, info, last, calls, side>>

\* the except clause of cleanup_xcat_image_for_migration
FmExceptImage ==
    /\ InFm("except_image")
    /\ IF exc.cls \in CleanupImageCaught
          THEN \E o \in CDeleteImage(Chain(node, users)) : Unwound(o)
       ELSE UNCHANGED <<node, users, reqs, comps, exc>>
    /\ pc' = "raised"
    /\ UNCHANGED <<op, args, done, info, failedAt, orig, last, calls, side>>

\* another xCAT MN: new_inst.create_xcat_node(zhcp)
FmCreateXcatNode ==
    /\ InFm("create_xcat_node")
    /\ \E m \in Mkdef(node, InstName, NewNode(InstName)) :
          /\ node' = m.node
          /\ IF m.res = Ok
                THEN Advance("create_xcat_node",
                             IF new_userid # InstName THEN "update_node_def"
                             ELSE "copy_image")
             ELSE RaiseTo("create_xcat_node", m.res, "raised")
    /\ UNCHANGED users
    /\ Frame

\* another xCAT MN: scp of the bundle and ssh rm on the source host
FmCopyImage ==
    /\ InFm("copy_image")
    /\ \/ Advance("copy_image", "put_image_to_xcat")
       \/ RaiseTo("copy_image", Exc("ProcessExecutionError", ""), "raised")
    /\ UNCHANGED <<node, users>>
    /\ Frame

\* another xCAT MN: put_image_to_xcat; ZVMImageError deletes the new node
FmPutImageToXcat ==
    /\ InFm("put_image_to_xcat")
    /\ \/ /\ Advance("put_image_to_xcat", "preset_network")
          /\ UNCHANGED <<node, users, comps, reqs>>
       \/ \E e \in ImageErrors :
             /\ failedAt' = "put_image_to_xcat"
             /\ orig' = e
             /\ pc' = "raised"
             /\ UNCHANGED done
             /\ \E o \in CDeleteXcatNode(Chain(node, users), InstName) :
                   /\ node' = o.node
                   /\ users' = o.users
                   /\ reqs' = reqs \cup o.reqs
                   /\ comps' = comps \o o.comps
                   /\ exc' = save_and_reraise_exception(e, o.res)
    /\ UNCHANGED <<op, args, info, last, calls, side>>

\* self._preset_instance_network(new_inst._name, network_info); an empty
\* network_info is "Invalid network info"
FmPresetNetwork ==
    /\ InFm("preset_network")
    /\ \/ /\ args.nvif > 0
          /\ node' = [node EXCEPT ![InstName].hosts = TRUE]
          /\ Advance("preset_network", "create_userid")
       \/ \E e \in NetworkErrors :
             /\ RaiseTo("preset_network", e, "except1")
             /\ UNCHANGED node
    /\ UNCHANGED users
    /\ Frame

\* new_inst.create_userid(block_device_info, image_meta)
FmCreateUserid ==
    /\ InFm("create_userid")
    /\ \/ /\ users' = users \cup {node[InstName].userid}
          /\ \E eph_added \in BOOLEAN :
                Advance("create_userid",
                        IF eph_added THEN "punch_eph_info_file"
                        ELSE "add_nic")
       \/ \E e \in Reraised("ZVMXCATCreateUserIdFailed"), created \in BOOLEAN :
             /\ users' = IF created THEN users \cup {node[InstName].userid}
                         ELSE users
             /\ RaiseTo("create_userid", e, "except1")
    /\ UNCHANGED node
    /\ Frame

\* "if disk_eph_size_old == 0 and disk_eph_size_new > 0:
\* punch_eph_info_file"
FmPunchEphInfoFile ==
    /\ InFm("punch_eph_info_file")
    /\ \/ Advance("punch_eph_info_file", "add_nic")
       \/ \E e \in XcatRequestErrors :
             RaiseTo("punch_eph_info_file", e, "except1")
    /\ UNCHANGED <<node, users>>
    /\ Frame

\* one turn of the create_nic loop of _add_nic_to_instance
FmAddNic ==
    /\ InFm("add_nic")
    /\ \/ Advance("create_nic",
                  IF NicsCreated + 1 = args.nvif THEN "deploy" ELSE "add_nic")
       \/ \E e \in NetworkErrors : RaiseTo("create_nic", e, "except1")
    /\ UNCHANGED <<node, users>>
    /\ Frame

\* _deploy_root_and_ephemeral: update_node_info_resize, deploy_node,
\* update_last_use_date
FmDeploy ==
    /\ InFm("deploy")
    /\ \/ Advance("deploy", "delete_image")
       \/ \E e \in Reraised("ZVMXCATUpdateNodeFailed")
                   \cup Reraised("ZVMXCATDeployNodeFailed")
                   \cup XcatRequestErrors :
             RaiseTo("deploy", e, "except1")
    /\ UNCHANGED <<node, users>>
    /\ Frame

\* except clauses of lines 1626 and 1667
FmCaught == ZVMBaseException

\* the handler of lines 1626-1654
FmHandler1(nd, us, a) ==
    LET name == InstName
        old  == RszName(InstName)
        c1 == CDeleteImage(Chain(nd, us))
        c2 == IF a.same_xcat_mn THEN c1
              ELSE Then(c1, LAMBDA o : CCleanNetwork(o, name, a.nvif))
        c3 == Then(c2, LAMBDA o : CDeleteUserid(o, name))
        c4 == Then(c3, LAMBDA o : CDeleteXcatNode(o, name))
        c5 == Then(c4, LAMBDA o : CCopyXcatNode(o, name, old))
        c6 == Then(c5, LAMBDA o : CDeleteXcatNode(o, old))
        c7 == Then(c6, LAMBDA o : CReconfigureNetworking(o, name))
        c8 == Then(c7, LAMBDA o : CPowerOnIfGranted(o, name, a.power_on))
    IN  IF a.same_xcat_mn THEN c8 ELSE c4

FmExcept1 ==
    /\ InFm("except1")
    /\ IF exc.cls \in FmCaught
          THEN \E o \in FmHandler1(node, users, args) : Unwound(o)
       ELSE UNCHANGED <<node, users, reqs, comps, exc>>
    /\ pc' = "raised"
    /\ UNCHANGED <<op, args, done, info, failedAt, orig, last, calls, side>>

\* line 1657: delete_image_from_xcat between the two try statements
FmDeleteImage ==
    /\ InFm("delete_image")
    /\ \/ Advance("delete_image", "punch_xcat_auth_file")
       \/ \E e \in ImageErrors : RaiseTo("delete_image", e, "raised")
    /\ UNCHANGED <<node, users>>
    /\ Frame

\* zvmutils.punch_xcat_auth_file
FmPunchXcatAuthFile ==
    /\ InFm("punch_xcat_auth_file")
    /\ \/ Advance("punch_xcat_auth_file", "power_on")
       \/ \E e \in XcatRequestErrors :
             RaiseTo("punch_xcat_auth_file", e, "except2")
    /\ UNCHANGED <<node, users>>
    /\ Frame

AfterAttach == IF args.power_on THEN "returned" ELSE "power_off"

\* new_inst.power_on()
FmPowerOn ==
    /\ InFm("power_on")
    /\ \E p \in power_on :
          IF p.res = Ok
             THEN Advance("power_on",
                          IF args.nvol = 0 THEN AfterAttach
                          ELSE "attach_volume")
          ELSE RaiseTo("power_on", p.res, "except2")
    /\ UNCHANGED <<node, users>>
    /\ Frame

\* one turn of _attach_volume_to_instance
FmAttachVolume ==
    /\ InFm("attach_volume")
    /\ \/ Advance("attach_volume",
                  IF VolumesAttached + 1 = args.nvol THEN AfterAttach
                  ELSE "attach_volume")
       \/ \E e \in VolumeErrors \cup XcatRequestErrors :
             RaiseTo("attach_volume", e, "except2")
    /\ UNCHANGED <<node, users>>
    /\ Frame

\* replies of PUT rpower off
PowerOffReplies ==
    {Ok, Exc("ZVMXCATInternalError", "Return Code: 200 Reason Code: 12")}
    \cup XcatRequestErrors

(* ZVMInstance.power_off *)
power_off ==
    { IF r.cls = "ZVMXCATInternalError"
         THEN IF r.msg = "Return Code: 200 Reason Code: 12" THEN Ok
              ELSE Exc("InstancePowerOffFailure", "")
      ELSE r
      : r \in PowerOffReplies }

\* "if not power_on: new_inst.power_off()"
FmPowerOff ==
    /\ InFm("power_off")
    /\ \E r \in power_off :
          IF r = Ok THEN Advance("power_off", "returned")
          ELSE RaiseTo("power_off", r, "except2")
    /\ UNCHANGED <<node, users>>
    /\ Frame

\* the handler of lines 1667-1673
FmHandler2(nd, us, a) ==
    UNION {
      LET base == [node |-> d.node, users |-> d.users, res |-> d.res,
                   reqs |-> d.reqs, comps |-> <<"destroy">>]
          rest == IF a.same_xcat_mn
                     THEN Then(Then({base},
                                    LAMBDA o : CCopyXcatNode(
                                                 o, InstName,
                                                 RszName(InstName))),
                               LAMBDA o : CDeleteXcatNode(
                                            o, RszName(InstName)))
                  ELSE {base}
      IN  { [chain |-> c, info |-> d.info] : c \in rest }
      : d \in destroy(nd, us, InstName, a.nvif, a.nvol) }

FmExcept2 ==
    /\ InFm("except2")
    /\ IF exc.cls \in FmCaught
          THEN \E h \in FmHandler2(node, users, args) :
                  /\ Unwound(h.chain)
                  /\ info' = h.info
       ELSE UNCHANGED <<node, users, reqs, comps, exc, info>>
    /\ pc' = "raised"
    /\ UNCHANGED <<op, args, done, failedAt, orig, last, calls, side>>

(* ------------------------------ pollers ------------------------------- *)
\* time is counted in ticks of five seconds
\* largest zvm_reachable_timeout tried, in ticks
MaxTimeout == 3
\* longest a probe (one xCAT query) takes, in ticks
MaxProbe == 2
\* the clock stops the model here
MaxNow == 8

PollKinds == {"_wait_for_reachable", "_wait_for_addnic", "_wait_for_nic_update"}

\* timer.start(interval=5) of _wait_for_reachable, interval=10 of the others
Interval(kind) == IF kind = "_wait_for_reachable" THEN 1 ELSE 2

NoPoll ==
    [kind |-> "none", pc |-> "idle", now |-> 0, expiration |-> 0,
     timeout |-> 0, dur |-> 0, reachable |-> FALSE, attempts |-> 0,
     answer |-> "none", err |-> Ok, ignored |-> {}]

\* what one probe can answer: is_reachable / _is_nic_granted return a
\* boolean or raise what the xCAT request raised
ProbeAnswers == {Exc("True", ""), Exc("False", "")} \cup XcatRequestErrors

\* a clause that lets the malformed response through
WaitCaughtButMalformed ==
    ZVMBaseException \ {"ZVMInvalidXCATResponseDataError"}

\* except clause of _wait_addnic and _wait_revoke ("Ignore any zvm driver
\* exceptions")
WaitCaught == ZVMBaseException

\* _wait_reachable calls is_reachable outside any try statement
WaitReachableCaught == {}

Caught(kind) ==
    IF kind = "_wait_for_reachable" THEN WaitReachableCaught ELSE WaitCaught

\* the answer that ends the loop: reachable, granted, or no longer granted
Wanted(kind) == IF kind = "_wait_for_nic_update" THEN "False" ELSE "True"

\* a deadline that never passes
ExpiredNever(p) == FALSE

\* a deadline that counts although the timeout is 0
ExpiredAlsoUnlimited(p) == p.now > p.expiration

\* "CONF.zvm_reachable_timeout and timeutils.utcnow() > expiration"
Expired(p) == p.timeout # 0 /\ p.now > p.expiration

\* the wait begins: expiration = utcnow() + timedelta(seconds=timeout)
PollStart ==
    /\ poll.pc = "idle"
    /\ \E k \in PollKinds, t \in 0..MaxTimeout :
          poll' = [NoPoll EXCEPT !.kind = k, !.pc = "call", !.timeout = t,
                                 !.expiration = t]
    /\ UNCHANGED <<wfvars, mig, lm, vd, later, late>>

\* one call of _wait_reachable / _wait_addnic / _wait_revoke by the timer
PollCall ==
    /\ poll.pc = "call"
    /\ IF Expired(poll)
          THEN poll' = [poll EXCEPT !.pc = "done"]
       ELSE \E a \in ProbeAnswers, d \in 0..MaxProbe :
               /\ poll.now + d <= MaxNow
               /\ poll' =
                    [poll EXCEPT
                       !.now = @ + d,
                       !.dur = d,
                       !.attempts = @ + 1,
                       !.answer = a.cls,
                       !.ignored = IF a.cls \in Caught(poll.kind)
                                      THEN @ \cup {a.cls} ELSE @,
                       !.reachable =
                           @ \/ (poll.kind = "_wait_for_reachable"
                                 /\ a.cls = "True"),
                       !.err = IF a.cls \in {"True", "False"}
                                  \/ a.cls \in Caught(poll.kind)
                                  THEN Ok ELSE a,
                       !.pc = IF a.cls = Wanted(poll.kind) THEN "done"
                              ELSE IF a.cls \in {"True", "False"}
                                      \/ a.cls \in Caught(poll.kind)
                                 THEN "sleep"
                              ELSE "raised"]
    /\ UNCHANGED <<wfvars, mig, lm, vd, later, late>>

\* FixedIntervalLoopingCall sleeps for what is left of the interval
PollSleep ==
    /\ poll.pc = "sleep"
    /\ LET delay == Interval(poll.kind) - poll.dur
       IN  /\ poll.now + (IF delay > 0 THEN delay ELSE 0) <= MaxNow
           /\ poll' = [poll EXCEPT
                         !.now = @ + (IF delay > 0 THEN delay ELSE 0),
                         !.pc = "call"]
    /\ UNCHANGED <<wfvars, mig, lm, vd, later, late>>

(* ------------------ migrate_disk_and_power_off ------------------------ *)
\* largest disk size of a flavor, in GB
MaxGb == 1

\* nova.compute.power_state of instance['power_state']
PowerStates ==
    {"NOSTATE", "RUNNING", "PAUSED", "SHUTDOWN", "CRASHED", "SUSPENDED"}

\* what the guest is doing for each recorded power_state
VmOf(state) ==
    IF state = "RUNNING" THEN "on"
    ELSE IF state = "PAUSED" THEN "paused"
    ELSE "off"

NoMig ==
    [pc |-> "idle", state |-> "NOSTATE", vm |-> "off",
     root_old |-> 0, root_new |-> 0, eph_old |-> 0, eph_new |-> 0,
     nvol |-> 0, reqs |-> <<>>, exc |-> Ok]

MigRaise(e) == [mig EXCEPT !.pc = "raised", !.exc = e]

\* "Not support shrink disk"
ShrinkError == Exc("MigrationError", "Not support shrink disk")

(* ZVMInstance.unpause: PUT rpower unpause, then _wait_for_reachable, whose *)
(* self._reachable is not looked at                                         *)
unpause ==
    { [res |-> e, sent |-> FALSE] : e \in XcatRequestErrors }
    \cup { [res |-> IF w.cls \in {"reachable", "timeout"} THEN Ok ELSE w,
            sent |-> TRUE] : w \in WaitReachableEnds }

\* the guest after a capture that succeeded: the instance is powered on
\* again "after capture" by _reset_power_state where it has to run
CaptureLeavesRunning(vm) == "on"

CaptureLeaves(vm) == "off"

\* the call begins; "Not support boot from volume."
MigrateDiskAndPowerOff ==
    /\ mig.pc = "idle"
    /\ \E st \in PowerStates, ro \in 0..MaxGb, rn \in 0..MaxGb,
          eo \in 0..MaxGb, en \in 0..MaxGb, nv \in 0..MaxVol,
          is_volume_base \in BOOLEAN :
          LET m == [NoMig EXCEPT !.state = st, !.vm = VmOf(st),
                                 !.root_old = ro, !.root_new = rn,
                                 !.eph_old = eo, !.eph_new = en,
                                 !.nvol = nv]
          IN  mig' = IF is_volume_base
                        THEN [m EXCEPT !.pc = "raised",
                                       !.exc = Exc("MigrationError",
                                                   "Not support boot from volume.")]
                     ELSE [m EXCEPT !.pc = "power_state"]
    /\ UNCHANGED <<wfvars, poll, lm, vd, later, late>>

\* "Make sure the instance's power_state is running and unpaused before
\* doing a capture."
MigPowerState ==
    /\ mig.pc = "power_state"
    /\ IF mig.state \in {"NOSTATE", "CRASHED", "SUSPENDED"}
          THEN mig' = MigRaise(Exc("InstanceNotReady", ""))
       ELSE IF mig.state = "SHUTDOWN"
          THEN \E p \in power_on :
                  mig' = [mig EXCEPT
                            !.reqs = Append(@, "rpower on"),
                            !.vm = IF p.accepted THEN "on" ELSE @,
                            !.exc = p.res,
                            !.pc = IF p.res = Ok THEN "get_userid"
                                   ELSE "raised"]
       ELSE IF mig.state = "PAUSED"
          THEN \E u \in unpause :
                  mig' = [mig EXCEPT
                            !.reqs = Append(@, "rpower unpause"),
                            !.vm = IF u.sent THEN "on" ELSE @,
                            !.exc = u.res,
                            !.pc = IF u.res = Ok THEN "get_userid"
                                   ELSE "raised"]
       ELSE mig' = [mig EXCEPT !.pc = "get_userid"]
    /\ UNCHANGED <<wfvars, poll, lm, vd, later, late>>

\* disk_owner = zvmutils.get_userid(inst_name), a GET
MigGetUserid ==
    /\ mig.pc = "get_userid"
    /\ \/ mig' = [mig EXCEPT !.pc = "check_shrink"]
       \/ \E e \in XcatRequestErrors : mig' = MigRaise(e)
    /\ UNCHANGED <<wfvars, poll, lm, vd, later, late>>

\* "if new_root_disk_size < old_root_disk_size or new_eph_disk_size <
\* old_eph_disk_size: raise MigrationError"
MigCheckShrink ==
    /\ mig.pc = "check_shrink"
    /\ mig' = IF mig.root_new < mig.root_old \/ mig.eph_new < mig.eph_old
                 THEN MigRaise(ShrinkError)
              ELSE [mig EXCEPT !.pc = "get_eph_disk_info"]
    /\ UNCHANGED <<wfvars, poll, lm, vd, later, late>>

\* self._get_eph_disk_info(inst_name): the user directory is read
MigGetEphDiskInfo ==
    /\ mig.pc = "get_eph_disk_info"
    /\ \/ mig' = [mig EXCEPT !.pc = "detach_volume"]
       \/ \E e \in XcatRequestErrors : mig' = MigRaise(e)
    /\ UNCHANGED <<wfvars, poll, lm, vd, later, late>>

\* self._detach_volume_from_instance(instance, bdm)
MigDetachVolume ==
    /\ mig.pc = "detach_volume"
    /\ \E d \in _detach_volume_from_instance(InstName, mig.nvol) :
          mig' = [mig EXCEPT
                    !.reqs = @ \o [i \in 1..Cardinality(d.reqs)
                                     |-> "detach_volume"],
                    !.exc = d.res,
                    !.pc = IF d.res = Ok THEN "capture" ELSE "raised"]
    /\ UNCHANGED <<wfvars, poll, lm, vd, later, late>>

\* _capture_disk_for_instance: the capture (create_zvm_image) and the
\* export of the image; a capture that failed may have stopped the guest
MigCapture ==
    /\ mig.pc = "capture"
    /\ \/ mig' = [mig EXCEPT !.reqs = Append(@, "capture"),
                             !.vm = CaptureLeaves(mig.vm),
                             !.pc = "returned"]
       \/ \E e \in ImageErrors \cup XcatRequestErrors,
             v \in {mig.vm, CaptureLeaves(mig.vm)} :
             mig' = [mig EXCEPT !.reqs = Append(@, "capture"),
                                !.vm = v,
                                !.exc = e,
                                !.pc = "raised"]
    /\ UNCHANGED <<wfvars, poll, lm, vd, later, late>>

(* --------------------------- live migration --------------------------- *)
\* records in the info of a response, and strings in a record
MaxRec == 2

MaxItem == 1

\* what a string of a response holds: the marker 'Done', the code 1944 of
\* the relocation facility, or neither
Lines == {"Done", "1944", "other"}

BoundedSeq(S, n) == UNION { [1..k -> S] : k \in 0..n }

Records == BoundedSeq(Lines, MaxItem)

Infos == BoundedSeq(Records, MaxRec)

\* what xcat_request("PUT", rmigrate) raises
RmigrateErrors ==
    XcatRequestErrors \cup {Exc("ZVMXCATInternalError", "1944")}

NoReply == [err |-> Ok, info |-> <<>>]

RmigrateReplies ==
    { [err |-> e, info |-> <<>>] : e \in RmigrateErrors }
    \cup { [err |-> Ok, info |-> inf] : inf \in Infos }

\* '1944' in err.format_message(): the message holds str(res_info), or the
\* text of the failed request
Has1944(inf) ==
    \E r \in DOMAIN inf : \E k \in DOMAIN inf[r] : inf[r][k] = "1944"

RelocateFailed(has1944) ==
    Exc("MigrationError", IF has1944 THEN "1944" ELSE "other")

(* ZVMDriver._vmrelocate: what leaves the function (Ok if it returns).      *)
(* len(res_info) > 0 and len(res_info[0]) > 0 guard the first record, and  *)
(* res_info[-1][0] indexes the last one.                                    *)
_vmrelocate(reply) ==
    LET inf == reply.info
    IN  IF reply.err # Ok THEN RelocateFailed(reply.err.msg = "1944")
        ELSE IF ~(Len(inf) > 0 /\ Len(inf[1]) > 0)
           THEN RelocateFailed(Has1944(inf))
        ELSE IF Len(inf[Len(inf)]) = 0 THEN Exc("IndexError", "")
        ELSE IF inf[Len(inf)][1] = "Done" THEN Ok
        ELSE RelocateFailed(Has1944(inf))

\* CONF.zvm_vmrelocate_force: None, or a string of these words
ForceWords == {"ARCHITECTURE", "domain", "STORAGE"}

NoForce == [str |-> FALSE, words |-> {}]

Forces == {NoForce} \cup { [str |-> TRUE, words |-> W] : W \in SUBSET ForceWords }

\* str.lower()
Lower(w) ==
    IF w = "ARCHITECTURE" THEN "architecture"
    ELSE IF w = "STORAGE" THEN "storage"
    ELSE IF w = "DOMAIN" THEN "domain"
    ELSE w

\* isinstance(force, str) and ('domain' in force.lower() or 'architecture'
\* in force.lower())
ForceIgnores(force) ==
    /\ force.str
    /\ \E w \in force.words : Lower(w) \in {"domain", "architecture"}

\* CONF.zvm_xcat_server of a compute host
XcatServers == {"xcat1", "xcat2"}

NotTried == Exc("none", "")

NoLm ==
    [call |-> "none", pc |-> "idle", dest_host |-> FALSE, userid_ok |-> FALSE,
     force |-> NoForce, reply |-> NoReply, relocate |-> NotTried,
     same_mn |-> TRUE, key |-> FALSE, dest_node |-> FALSE,
     dest_hosts |-> FALSE, at |-> "source", recovers |-> 0, posts |-> 0,
     bdi_empty |-> FALSE, exc |-> Ok]

LmRaise(l, e) == [l EXCEPT !.pc = "raised", !.exc = e]

LmReturn(l) == [l EXCEPT !.pc = "returned"]

PreCheckError == Exc("MigrationPreCheckError", "")

(* check_can_live_migrate_source *)
CheckCanLiveMigrateSource ==
    /\ lm.call = "none"
    /\ \E dest \in BOOLEAN, f \in Forces :
          LET l == [lm EXCEPT !.call = "check_can_live_migrate_source",
                              !.dest_host = dest, !.force = f]
          IN  \/ \* zvmutils.get_userid raised
                 \E e \in XcatRequestErrors : lm' = LmRaise(l, e)
              \/ /\ ~dest
                 /\ lm' = LmRaise([l EXCEPT !.userid_ok = TRUE], PreCheckError)
              \/ /\ dest
                 /\ \E reply \in RmigrateReplies :
                       LET r  == _vmrelocate(reply)
                           l2 == [l EXCEPT !.userid_ok = TRUE,
                                           !.reply = reply, !.relocate = r]
                       IN  lm' = IF r = Ok THEN LmReturn(l2)
                                 ELSE IF r.cls # "MigrationError"
                                    THEN LmRaise(l2, r)
                                 ELSE IF ForceIgnores(f) /\ r.msg = "1944"
                                    THEN LmReturn(l2)
                                 ELSE LmRaise(l2, PreCheckError)
    /\ UNCHANGED <<wfvars, poll, mig, vd, later, late>>

(* pre_live_migration, on the destination host *)
PreLiveMigration ==
    /\ lm.call = "check_can_live_migrate_source"
    /\ lm.pc = "returned"
    /\ \E bdi_empty \in BOOLEAN, has_network \in BOOLEAN,
          source_xcat_mn \in XcatServers, zvm_xcat_server \in XcatServers :
          LET same == source_xcat_mn = zvm_xcat_server
              l == [NoLm EXCEPT !.call = "pre_live_migration",
                                !.dest_host = TRUE, !.same_mn = same,
                                !.bdi_empty = bdi_empty]
              l1 == IF same THEN l
                    ELSE [l EXCEPT !.dest_node = TRUE, !.key = TRUE]
              l2 == IF has_network THEN [l1 EXCEPT !.dest_hosts = TRUE]
                    ELSE l1
          IN  \/ /\ bdi_empty
                 /\ lm' = LmRaise(l, Exc("MigrationError", "other"))
              \/ /\ ~bdi_empty
                 /\ \/ lm' = LmReturn(l2)
                    \/ \* create_xcat_node raised
                       /\ ~same
                       /\ \E e \in XcatRequestErrors : lm' = LmRaise(l, e)
                    \/ \* get_mn_pub_key raised
                       /\ ~same
                       /\ lm' = LmRaise([l EXCEPT !.dest_node = TRUE],
                                        Exc("ZVMXCATXdshFailed", ""))
                    \/ \* add_xcat_host or makehosts raised
                       /\ has_network
                       /\ \E e \in NetworkErrors :
                             lm' = LmRaise([l1 EXCEPT !.key = FALSE], e)
    /\ UNCHANGED <<wfvars, poll, mig, vd, later, late>>

(* live_migration up to the try: the destination's key is added to the     *)
(* guest when the hosts are in different domains                            *)
LiveMigration ==
    /\ lm.call = "pre_live_migration"
    /\ lm.pc = "returned"
    /\ LET l == [lm EXCEPT !.call = "live_migration", !.pc = "move"]
       IN  \/ lm' = l
           \/ /\ ~lm.same_mn /\ lm.key
              /\ lm' = LmRaise(l, Exc("ZVMXCATXdshFailed", ""))
    /\ UNCHANGED <<wfvars, poll, mig, vd, later, late>>

\* a live_migration that leaves the source as it is
LmCleansSourceNever(same_mn) == FALSE

\* "if not same_mn: # Delete node definition at source xCAT MN"
LmCleansSource(same_mn) == ~same_mn

\* self._vmrelocate(dest_host, inst_name, 'move') and its except clause;
\* recover_method and post_method are the caller's and return
LmMove ==
    /\ lm.call = "live_migration"
    /\ lm.pc = "move"
    /\ \E reply \in RmigrateReplies :
          LET r == _vmrelocate(reply)
              l == [lm EXCEPT !.reply = reply, !.relocate = r]
          IN  lm' = IF r = Ok
                       THEN [l EXCEPT !.at = "dest",
                                      !.pc = IF LmCleansSource(lm.same_mn)
                                                THEN "clean" ELSE "post"]
                    ELSE IF r.cls = "MigrationError"
                       THEN LmRaise([l EXCEPT !.recovers = @ + 1], r)
                    ELSE LmRaise(l, r)
    /\ UNCHANGED <<wfvars, poll, mig, vd, later, late>>

\* clean_mac_switch_host and delete_xcat_node at the source
LmCleanSource ==
    /\ lm.call = "live_migration"
    /\ lm.pc = "clean"
    /\ \E c \in CleanLoop(InstName, 1) :
          IF c.res # Ok
             THEN /\ lm' = LmRaise(lm, c.res)
                  /\ reqs' = reqs \cup c.reqs
                  /\ UNCHANGED <<node, users>>
          ELSE \E o \in delete_xcat_node(Cleaned(node, InstName, c), users,
                                         InstName) :
                  /\ node' = o.node
                  /\ users' = o.users
                  /\ reqs' = reqs \cup c.reqs \cup o.reqs
                  /\ lm' = IF o.res = Ok THEN [lm EXCEPT !.pc = "post"]
                           ELSE LmRaise(lm, o.res)
    /\ UNCHANGED <<op, pc, exc, args, done, comps, info, failedAt, orig, last,
                   calls, poll, mig, vd, later, late>>

\* post_method(ctxt, instance_ref, dest, block_migration, migrate_data)
LmPost ==
    /\ lm.call = "live_migration"
    /\ lm.pc = "post"
    /\ lm' = [lm EXCEPT !.posts = @ + 1, !.pc = "returned"]
    /\ UNCHANGED <<wfvars, poll, mig, vd, later, late>>

(* ------------------------ device addresses (vdev) --------------------- *)
\* interfaces of a network_info and disks of an ephemerals list
MaxNic == 3

MaxEph == 2

\* "nic_vdev = str(hex(int(nic_vdev, 16) + 3))[2:]"
NicVdevStep == 3

(* a device address is a string of hexadecimal digits, kept as the         *)
(* sequence of the digits' values                                           *)
\* int(s, 16)
RECURSIVE Int16(_)
Int16(s) ==
    IF s = <<>> THEN 0
    ELSE Int16(SubSeq(s, 1, Len(s) - 1)) * 16 + s[Len(s)]

\* str(hex(n))[2:]: the digits of n, without leading zeros
RECURSIVE HexDigits(_)
HexDigits(n) ==
    IF n < 16 THEN <<n>> ELSE Append(HexDigits(n \div 16), n % 16)

\* an allocator that advances by one address
NextNicVdevByOne(v) == HexDigits(Int16(v) + 1)

\* the address of the next interface
NextNicVdev(v) == HexDigits(Int16(v) + NicVdevStep)

\* const.ZVM_DEFAULT_NIC_VDEV: "1000", "0800", "ff"
NicBases == {<<1, 0, 0, 0>>, <<0, 8, 0, 0>>, <<15, 15>>}

\* CONF.zvm_user_adde_vdev: "0101" (the default), "0200"
AddeVdevs == {<<0, 1, 0, 1>>, <<0, 2, 0, 0>>}

\* zvmutils.generate_eph_vdev(idx): the address of the disk at index idx of
\* the ephemerals list, counted from the additional-disk address
generate_eph_vdev(adde, idx) == HexDigits(Int16(adde) + idx + 1)

\* the functions that attach interfaces
VdCallers ==
    {"spawn", "_add_nic_to_instance", "post_live_migration_at_destination"}

NoVd ==
    [pc |-> "idle", fn |-> "none", base |-> <<>>, adde |-> <<>>,
     nvif |-> 0, neph |-> 0, nic_vdev |-> <<>>, nics |-> <<>>, ephs |-> <<>>]

\* "nic_vdev = base_nic_vdev" / "nic_vdev = const.ZVM_DEFAULT_NIC_VDEV"
VdStart ==
    /\ vd.pc = "idle"
    /\ \E fn \in VdCallers, base \in NicBases, adde \in AddeVdevs,
          nvif \in 0..MaxNic, neph \in 0..MaxEph :
          /\ fn = "spawn" => nvif > 0
          /\ fn # "spawn" => neph = 0
          /\ vd' = [NoVd EXCEPT !.pc = "run", !.fn = fn, !.base = base,
                                !.adde = adde, !.nvif = nvif, !.neph = neph,
                                !.nic_vdev = base]
    /\ UNCHANGED <<wfvars, poll, mig, lm, later, late>>

\* one turn of "for vif in network_info": the interface is created at
\* nic_vdev and the allocator advances
VdCreateNic ==
    /\ vd.pc = "run"
    /\ Len(vd.nics) < vd.nvif
    /\ vd' = [vd EXCEPT !.nics = Append(@, vd.nic_vdev),
                        !.nic_vdev = NextNicVdev(vd.nic_vdev)]
    /\ UNCHANGED <<wfvars, poll, mig, lm, later, late>>

\* one turn of "for idx, eph in enumerate(eph_disks)" of spawn
VdPunchEph ==
    /\ vd.pc = "run"
    /\ vd.fn = "spawn"
    /\ Len(vd.nics) = vd.nvif
    /\ Len(vd.ephs) < vd.neph
    /\ vd' = [vd EXCEPT
                !.ephs = Append(@, generate_eph_vdev(vd.adde, Len(vd.ephs)))]
    /\ UNCHANGED <<wfvars, poll, mig, lm, later, late>>

(* ------------------- disk_info between the two hosts ------------------ *)
\* Python values: a type and what the value holds
PyStr(x) == [t |-> "str", v |-> x]

PyUnicode(x) == [t |-> "unicode", v |-> x]

PyInt(n) == [t |-> "int", v |-> n]

PyNone == [t |-> "NoneType"]

PyTrue == [t |-> "bool", v |-> TRUE]

\* a == b of Python 2 for these values; the strings here are ASCII, so a str
\* and a unicode of the same characters are equal
PyEq(a, b) ==
    IF a.t \in {"str", "unicode"} /\ b.t \in {"str", "unicode"}
       THEN a.v = b.v
    ELSE /\ a.t = b.t
         /\ a.t = "NoneType" \/ a.v = b.v

\* jsonutils.dumps of a scalar: the JSON text it becomes
DumpsAtom(x) ==
    IF x.t \in {"str", "unicode"} THEN [j |-> "string", v |-> x.v]
    ELSE IF x.t = "int" THEN [j |-> "number", v |-> x.v]
    ELSE IF x.t = "bool" THEN [j |-> IF x.v THEN "true" ELSE "false"]
    ELSE [j |-> "null"]

\* jsonutils.loads of a scalar: every string comes back as unicode
LoadsAtom(x) ==
    IF x.j = "string" THEN PyUnicode(x.v)
    ELSE IF x.j = "number" THEN PyInt(x.v)
    ELSE IF x.j \in {"true", "false"} THEN [t |-> "bool", v |-> x.j = "true"]
    ELSE PyNone

\* jsonutils.dumps(disk_info): the scalars, and the list of dictionaries
\* under 'eph_disk_info'
jsonutils_dumps(d) ==
    [k \in DOMAIN d |->
        IF k = "eph_disk_info"
           THEN [i \in DOMAIN d[k] |->
                    [f \in DOMAIN d[k][i] |-> DumpsAtom(d[k][i][f])]]
        ELSE DumpsAtom(d[k])]

\* jsonutils.loads(disk_info)
jsonutils_loads(d) ==
    [k \in DOMAIN d |->
        IF k = "eph_disk_info"
           THEN [i \in DOMAIN d[k] |->
                    [f \in DOMAIN d[k][i] |-> LoadsAtom(d[k][i][f])]]
        ELSE LoadsAtom(d[k])]

\* u.encode('gbk') of an ASCII unicode
encode_gbk(u) == PyStr(u.v)

\* CONF.zvm_diskpool_type
DiskpoolTypes == {"ECKD", "FBA"}

\* the userid get_userid answers for the instance
DiskOwners == {"os01", "rszos01"}

\* vdev of the MDISK statements of the user directory
EphVdevs == {"0101", "0102"}

\* an entry of _get_eph_disk_info
EphDiskInfo(vdev) ==
    [vdev |-> PyStr(vdev), size |-> PyStr("3338"), guest_format |-> PyNone,
     size_in_units |-> PyTrue, device_name |-> PyStr(vdev)]

EphDiskInfos ==
    { [i \in DOMAIN f |-> EphDiskInfo(f[i])] : f \in BoundedSeq(EphVdevs, MaxEph) }

\* a finish_migration that reads the two ephemeral sizes crosswise
FmReadsCrosswise ==
    [source_xcat_mn |-> "disk_source_mn", source_image |-> "disk_source_image",
     image_name_xcat |-> "disk_image_name", disk_type |-> "disk_type",
     disk_eph_size_old |-> "disk_eph_size_new",
     disk_eph_size_new |-> "disk_eph_size_old",
     eph_disk_info |-> "eph_disk_info", old_userid |-> "disk_owner"]

\* the key of disk_info each local of finish_migration is read from
FmReads ==
    [source_xcat_mn |-> "disk_source_mn", source_image |-> "disk_source_image",
     image_name_xcat |-> "disk_image_name", disk_type |-> "disk_type",
     disk_eph_size_old |-> "disk_eph_size_old",
     disk_eph_size_new |-> "disk_eph_size_new",
     eph_disk_info |-> "eph_disk_info", old_userid |-> "disk_owner"]

\* the locals read with .encode('gbk')
FmEncoded == {"source_xcat_mn", "source_image", "image_name_xcat", "disk_type",
              "old_userid"}

NoCtx ==
    [pc |-> "idle", written |-> <<>>, text |-> <<>>, read |-> <<>>,
     dest_mn |-> "", same_xcat_mn |-> FALSE]

\* migrate_disk_and_power_off builds disk_info and returns its JSON text
CtxDumps ==
    /\ ctx.pc = "idle"
    /\ \E dt \in DiskpoolTypes, mn \in XcatServers, owner \in DiskOwners,
          eo \in 0..MaxGb, en \in 0..MaxGb, ephs \in EphDiskInfos :
          LET disk_info ==
                [disk_type |-> PyStr(dt),
                 disk_source_mn |-> PyStr(mn),
                 disk_source_image |-> PyStr("nova@10.0.0.1:/tmp/img.tgz"),
                 disk_image_name |-> PyStr("rhel6-s390x-netboot-os01"),
                 disk_owner |-> PyStr(owner),
                 disk_eph_size_old |-> PyInt(eo),
                 disk_eph_size_new |-> PyInt(en),
                 eph_disk_info |-> ephs]
          IN  ctx' = [ctx EXCEPT !.pc = "dumped", !.written = disk_info,
                                 !.text = jsonutils_dumps(disk_info)]
    /\ UNCHANGED <<wfvars, early, rv, rg, cap, gi, late>>

\* finish_migration on the destination loads the text and reads the fields
CtxLoads ==
    /\ ctx.pc = "dumped"
    /\ \E zvm_xcat_server \in XcatServers :
          LET disk_info == jsonutils_loads(ctx.text)
              read == [l \in DOMAIN FmReads |->
                          IF l \in FmEncoded
                             THEN encode_gbk(disk_info[FmReads[l]])
                          ELSE disk_info[FmReads[l]]]
          IN  ctx' = [ctx EXCEPT
                        !.pc = "read",
                        !.read = read,
                        !.dest_mn = zvm_xcat_server,
                        !.same_xcat_mn =
                            PyEq(read.source_xcat_mn, PyStr(zvm_xcat_server))]
    /\ UNCHANGED <<wfvars, early, rv, rg, cap, gi, late>>

(* ------------- confirm_migration and finish_revert_migration ---------- *)
\* the xCAT domain of the source host when a resize is confirmed or
\* reverted: the retained node 'rsz<name>' next to the resized instance (same
\* xCAT MN), the retained node alone (the resized instance was destroyed for
\* the revert), or the instance alone (the other xCAT MN holds the new one)
RvDomains ==
    { [n \in NodeNames |->
          IF n = InstName
             THEN (IF resized
                      THEN [userid |-> NewUserid(u, InstName), hcp |-> ThisHcp,
                            hosts |-> TRUE]
                   ELSE NoNode)
          ELSE [userid |-> u, hcp |-> ThisHcp, hosts |-> FALSE]]
      : u \in Userids, resized \in BOOLEAN }
    \cup
    { [n \in NodeNames |->
          IF n = InstName THEN [userid |-> u, hcp |-> ThisHcp, hosts |-> TRUE]
          ELSE NoNode]
      : u \in Userids }

UseridsOf(nd) == { nd[n].userid : n \in { m \in NodeNames : nd[m] # NoNode } }

NoRv ==
    [call |-> "none", pc |-> "idle", same |-> FALSE, nvol |-> 0,
     power_on |-> FALSE, node0 |-> <<>>, cleaned |-> FALSE,
     granted |-> "unknown", attached |-> 0, powered |-> FALSE, exc |-> Ok]

RvRaise(r, e) == [r EXCEPT !.pc = "raised", !.exc = e]

\* self._zvm_images.cleanup_image_after_migration(instance['name'])
cleanup_image_after_migration == {Ok} \cup ImageErrors

\* a confirm_migration that destroys the instance under its own name
ConfirmTargetAlwaysInstance(same, name) == name

\* "if self.instance_exists(old_inst._name): self.destroy({}, old_instance)
\* else: self.destroy({}, instance)"
ConfirmTarget(same, name) == IF same THEN RszName(name) ELSE name

(* confirm_migration *)
ConfirmMigration ==
    /\ rv.pc = "idle"
    /\ LET same == instance_exists(node, RszName(InstName))
           r0 == [rv EXCEPT !.call = "confirm_migration", !.node0 = node]
           r  == [r0 EXCEPT !.same = same]
       IN  \/ \* list_instances failed
              /\ \E e \in XcatRequestErrors : rv' = RvRaise(r0, e)
              /\ UNCHANGED <<node, users, reqs>>
           \/ \E o \in destroy(node, users, ConfirmTarget(same, InstName),
                               0, 0) :
                 /\ node' = o.node
                 /\ users' = o.users
                 /\ IF o.res # Ok
                       THEN rv' = RvRaise(r, o.res) /\ reqs' = o.reqs
                    ELSE IF same
                       THEN rv' = [r EXCEPT !.pc = "returned"]
                            /\ reqs' = o.reqs
                    ELSE \E c \in cleanup_image_after_migration :
                            /\ reqs' = o.reqs
                                       \cup {Req("cleanup_image", InstName)}
                            /\ rv' = IF c = Ok
                                        THEN [r EXCEPT !.pc = "returned",
                                                       !.cleaned = TRUE]
                                     ELSE RvRaise(r, c)
    /\ UNCHANGED <<op, pc, exc, args, done, comps, info, failedAt, orig, last,
                   calls, early, ctx, rg, cap, gi, late>>

RvFrame ==
    UNCHANGED <<op, pc, exc, args, done, comps, info, failedAt, orig, last,
                calls, early, ctx, rg, cap, gi, late>>

InRevert(p) == rv.call = "finish_revert_migration" /\ rv.pc = p

\* finish_revert_migration up to "if self.instance_exists(zvm_inst._name)"
FinishRevertMigration ==
    /\ rv.pc = "idle"
    /\ \E nvol \in 0..MaxVol, pwr \in BOOLEAN :
          LET r == [rv EXCEPT !.call = "finish_revert_migration",
                              !.node0 = node, !.nvol = nvol,
                              !.power_on = pwr]
          IN  \/ \E e \in XcatRequestErrors : rv' = RvRaise(r, e)
              \/ rv' = IF instance_exists(node, RszName(InstName))
                          THEN [r EXCEPT !.same = TRUE, !.pc = "restore"]
                       ELSE [r EXCEPT !.pc = "cleanup_image"]
    /\ UNCHANGED <<node, users, reqs>>
    /\ RvFrame

\* "old_inst.copy_xcat_node(new_instance['name'])" and
\* "zvm_inst.delete_xcat_node()"
RvRestore ==
    /\ InRevert("restore")
    /\ \E c \in copy_xcat_node(node, users, InstName, RszName(InstName)) :
          IF c.res # Ok
             THEN /\ node' = c.node
                  /\ users' = c.users
                  /\ reqs' = reqs \cup c.reqs
                  /\ rv' = RvRaise(rv, c.res)
          ELSE \E o \in delete_xcat_node(c.node, c.users, RszName(InstName)) :
                  /\ node' = o.node
                  /\ users' = o.users
                  /\ reqs' = reqs \cup c.reqs \cup o.reqs
                  /\ rv' = IF o.res = Ok THEN [rv EXCEPT !.pc = "reconfigure"]
                           ELSE RvRaise(rv, o.res)
    /\ RvFrame

\* self._reconfigure_networking(instance['name'], network_info)
RvReconfigure ==
    /\ InRevert("reconfigure")
    /\ \E o \in CReconfigureNetworking(Chain(node, users), InstName) :
          /\ node' = o.node
          /\ users' = o.users
          /\ reqs' = reqs \cup o.reqs
          /\ rv' = IF o.res = Ok THEN [rv EXCEPT !.pc = "is_nic_granted"]
                   ELSE RvRaise(rv, o.res)
    /\ RvFrame

\* a revert that goes on although the NICs are not granted
RvNotGrantedGoesOn(r) == [r EXCEPT !.granted = "no", !.pc = "attach_volume"]

\* "if not self._is_nic_granted(instance['name']): raise MigrationError"
RvNotGranted(r) ==
    RvRaise([r EXCEPT !.granted = "no"],
            Exc("MigrationError", "Failed to bound vswitch"))

RvIsNicGranted ==
    /\ InRevert("is_nic_granted")
    /\ \E g \in IsNicGrantedResults :
          rv' = IF g.cls = "granted"
                   THEN [rv EXCEPT !.granted = "yes", !.pc = "attach_volume"]
                ELSE IF g.cls = "not granted" THEN RvNotGranted(rv)
                ELSE RvRaise(rv, g)
    /\ UNCHANGED <<node, users, reqs>>
    /\ RvFrame

\* the other xCAT MN: the image the migration left is cleaned up
RvCleanupImage ==
    /\ InRevert("cleanup_image")
    /\ \E c \in cleanup_image_after_migration :
          rv' = IF c = Ok
                   THEN [rv EXCEPT !.cleaned = TRUE, !.pc = "attach_volume"]
                ELSE RvRaise(rv, c)
    /\ reqs' = reqs \cup {Req("cleanup_image", InstName)}
    /\ UNCHANGED <<node, users>>
    /\ RvFrame

\* self._attach_volume_to_instance({}, instance, bdm), one volume a turn
RvAttachVolume ==
    /\ InRevert("attach_volume")
    /\ IF rv.attached = rv.nvol
          THEN /\ rv' = [rv EXCEPT !.pc = IF rv.power_on THEN "power_on"
                                          ELSE "returned"]
               /\ UNCHANGED reqs
       ELSE /\ reqs' = reqs \cup {Req("attach_volume", InstName)}
            /\ \/ rv' = [rv EXCEPT !.attached = @ + 1]
               \/ \E e \in VolumeErrors \cup XcatRequestErrors :
                     rv' = RvRaise([rv EXCEPT !.attached = @ + 1], e)
    /\ UNCHANGED <<node, users>>
    /\ RvFrame

\* "if power_on: self.power_on({}, instance, [])"
RvPowerOn ==
    /\ InRevert("power_on")
    /\ \E p \in power_on :
          rv' = IF p.res = Ok
                   THEN [rv EXCEPT !.powered = TRUE, !.pc = "returned"]
                ELSE RvRaise([rv EXCEPT !.powered = TRUE], p.res)
    /\ reqs' = reqs \cup {Req("rpower on", InstName)}
    /\ UNCHANGED <<node, users>>
    /\ RvFrame

(* ---------------------------- re_grant_user --------------------------- *)
\* zvmUtils._MAX_REGRANT_USER_NUMBER
_MAX_REGRANT_USER_NUMBER == 1000

\* ports of the switch table that belong to the zhcp
MaxPorts == 1002

\* ports without a userid or a vswitch, ports whose vlan_id is no number,
\* and batches whose commands fail
MaxSkipped == 1

MaxBadVlan == 1

MaxFailed == 1

\* a port of ports_info: no userid or vswitch; a vlan_id in range(1, 4094);
\* a number outside it; a vlan_id int() does not take
PortKinds == {"skipped", "vlan", "no vlan", "bad vlan"}

NoRg ==
    [pc |-> "idle", ports |-> 0, records_num |-> 0, cmd |-> 0, skipped |-> 0,
     bad |-> 0, failed |-> 0, commands |-> 0, largest |-> 0, resent |-> 0,
     delivered |-> 0, twice |-> FALSE, exc |-> Ok]

\* ports_info = self._get_userid_vswitch_vlan_id_mapping(zhcp)
ReGrantUser ==
    /\ rg.pc = "idle"
    /\ \/ rg' = [rg EXCEPT !.pc = "loop"]
       \/ \E e \in XcatRequestErrors : rg' = [rg EXCEPT !.pc = "raised",
                                                        !.exc = e]
    /\ UNCHANGED <<wfvars, early, ctx, rv, cap, gi, late>>

\* the two run_command calls that send cmd: the number of grant records of
\* the largest command sent so far
\* resent counts the records of cmd that an earlier command held already
Sent(r) ==
    [r EXCEPT !.commands = @ + 1,
              !.largest = IF r.cmd > @ THEN r.cmd ELSE @,
              !.delivered = @ + (r.cmd - r.resent),
              !.twice = @ \/ r.resent > 0,
              !.resent = r.cmd]

\* one turn of "for (port_id, port) in ports_info.items()"; cmd counts the
\* grant records it holds
RgPort ==
    /\ rg.pc = "loop"
    /\ rg.ports < MaxPorts
    /\ \E kind \in PortKinds :
          LET r == [rg EXCEPT !.ports = @ + 1]
          IN  IF kind = "skipped"
                 THEN /\ rg.skipped < MaxSkipped
                      /\ rg' = [r EXCEPT !.skipped = @ + 1]
              ELSE IF kind = "bad vlan"
                 THEN \* except ValueError: cmd += '\n'; continue
                      /\ rg.bad < MaxBadVlan
                      /\ rg' = [r EXCEPT !.bad = @ + 1, !.cmd = @ + 1]
              ELSE LET c == [r EXCEPT !.cmd = @ + 1, !.records_num = @ + 1]
                   IN  IF c.records_num >= _MAX_REGRANT_USER_NUMBER
                          THEN \/ rg' = [Sent(c) EXCEPT !.records_num = 0,
                                                        !.cmd = 0,
                                                        !.resent = 0]
                               \/ \* except Exception: LOG.warn
                                  /\ rg.failed < MaxFailed
                                  /\ rg' = [Sent(c) EXCEPT !.failed = @ + 1]
                       ELSE rg' = c
    /\ UNCHANGED <<wfvars, early, ctx, rv, cap, gi, late>>

\* after the loop: "if len(cmd) > 0", the commands are run once more
RgFlush ==
    /\ rg.pc = "loop"
    /\ IF rg.cmd > 0
          THEN \/ rg' = [Sent(rg) EXCEPT !.pc = "returned"]
               \/ \E e \in XcatRequestErrors :
                     rg' = [Sent(rg) EXCEPT !.pc = "raised", !.exc = e]
       ELSE rg' = [rg EXCEPT !.pc = "returned"]
    /\ UNCHANGED <<wfvars, early, ctx, rv, cap, gi, late>>

(* --------------------- _capture_disk_for_instance --------------------- *)
\* nodetype.provmethod of an xCAT node
Provmethods == {"netboot", "raw", "sysclone"}

NoCap ==
    [pc |-> "idle", before |-> "none", provmethod |-> "none",
     orig_provmethod |-> "none", image |-> FALSE, path |-> "none",
     at |-> "none", exc |-> Ok]

CapRaise(c, step, e) == [c EXCEPT !.pc = "raised", !.at = step, !.exc = e]

\* update_node_provmethod: the PUT is re-raised as ZVMXCATUpdateNodeFailed
\* and may or may not have been applied
update_node_provmethod(c, step, provmethod, next) ==
    {[c EXCEPT !.provmethod = provmethod, !.pc = next]}
    \cup {CapRaise([c EXCEPT !.provmethod = v], step, e) :
            v \in {c.provmethod, provmethod},
            e \in Reraised("ZVMXCATUpdateNodeFailed")}

\* _capture_disk_for_instance is entered for a node of any provmethod
CaptureDiskForInstance ==
    /\ cap.pc = "idle"
    /\ \E m \in Provmethods :
          cap' = [NoCap EXCEPT !.pc = "get_provmethod", !.before = m,
                               !.provmethod = m]
    /\ UNCHANGED <<wfvars, early, ctx, rv, rg, gi, late>>

\* orig_provmethod = zvm_inst.get_provmethod()
CapGetProvmethod ==
    /\ cap.pc = "get_provmethod"
    /\ \/ cap' = [cap EXCEPT !.orig_provmethod = cap.provmethod,
                             !.pc = "relabel"]
       \/ \E e \in XcatRequestErrors :
             cap' = CapRaise(cap, "get_provmethod", e)
    /\ UNCHANGED <<wfvars, early, ctx, rv, rg, gi, late>>

\* if orig_provmethod != 'sysclone': update_node_provmethod('sysclone')
CapRelabel ==
    /\ cap.pc = "relabel"
    /\ IF cap.orig_provmethod # "sysclone"
          THEN cap' \in update_node_provmethod(cap, "relabel", "sysclone",
                                               "create_zvm_image")
       ELSE cap' = [cap EXCEPT !.pc = "create_zvm_image"]
    /\ UNCHANGED <<wfvars, early, ctx, rv, rg, gi, late>>

\* self._zvm_images.create_zvm_image, outside any try statement; a failed
\* capture may leave the image in xCAT
CapCreateZvmImage ==
    /\ cap.pc = "create_zvm_image"
    /\ \/ cap' = [cap EXCEPT !.image = TRUE, !.pc = "restore"]
       \/ \E e \in ImageErrors \cup XcatRequestErrors, left \in BOOLEAN :
             cap' = CapRaise([cap EXCEPT !.image = left],
                             "create_zvm_image", e)
    /\ UNCHANGED <<wfvars, early, ctx, rv, rg, gi, late>>

\* if orig_provmethod != 'sysclone': update_node_provmethod(orig_provmethod)
CapRestore ==
    /\ cap.pc = "restore"
    /\ IF cap.orig_provmethod # "sysclone"
          THEN cap' \in update_node_provmethod(cap, "restore",
                                               cap.orig_provmethod,
                                               "update_last_use_date")
       ELSE cap' = [cap EXCEPT !.pc = "update_last_use_date"]
    /\ UNCHANGED <<wfvars, early, ctx, rv, rg, gi, late>>

\* self._zvm_images.update_last_use_date(image_name_xcat)
CapUpdateLastUseDate ==
    /\ cap.pc = "update_last_use_date"
    /\ \/ cap' = [cap EXCEPT !.pc = "export"]
       \/ \E e \in XcatRequestErrors :
             cap' = CapRaise(cap, "update_last_use_date", e)
    /\ UNCHANGED <<wfvars, early, ctx, rv, rg, gi, late>>

\* get_snapshot_time_path, then get_image_from_xcat; ZVMImageError is
\* re-raised after clean_up_snapshot_time_path, any other error leaves
\* the path
CapExport ==
    /\ cap.pc = "export"
    /\ LET c == [cap EXCEPT !.path = "made"]
       IN  \/ cap' = [c EXCEPT !.pc = "returned"]
           \/ \E e \in ImageErrors :
                 cap' = CapRaise([c EXCEPT !.path = "cleaned"], "export", e)
           \/ \E e \in XcatRequestErrors : cap' = CapRaise(c, "export", e)
    /\ UNCHANGED <<wfvars, early, ctx, rv, rg, gi, late>>

(* ------------------------------ get_info ------------------------------ *)
\* what _get_power_stat returns: rpower stat answers on or off, anything
\* else maps to NOSTATE; a paused guest is reported as on
ReportedStates == {"RUNNING", "SHUTDOWN", "NOSTATE"}

NoGi ==
    [pc |-> "idle", recorded |-> "NOSTATE", power_stat |-> "NOSTATE",
     is_reachable |-> FALSE, state |-> "none", mem |-> "none", exc |-> Ok]

\* the else branch taken for the reported state alone
UnreachableStateAsReported(power_stat, recorded) == power_stat

\* the else branch of get_info: "return paused state only previous power
\* state is paused", "otherwise return xcat returned state"
UnreachableState(power_stat, recorded) ==
    IF power_stat = "RUNNING" /\ recorded = "PAUSED" THEN "PAUSED"
    ELSE power_stat

\* get_info of an instance whose record holds any power_state;
\* power_stat = self._get_power_stat()
GetInfo ==
    /\ gi.pc = "idle"
    /\ \E r \in PowerStates :
          \/ \E s \in ReportedStates :
                gi' = [NoGi EXCEPT !.pc = "is_reachable", !.recorded = r,
                                   !.power_stat = s]
          \/ \E e \in XcatRequestErrors :
                gi' = [NoGi EXCEPT !.pc = "raised", !.recorded = r, !.exc = e]
    /\ UNCHANGED <<wfvars, early, ctx, rv, rg, cap, late>>

\* is_reachable = self.is_reachable()
GiIsReachable ==
    /\ gi.pc = "is_reachable"
    /\ \/ \E b \in BOOLEAN :
             gi' = [gi EXCEPT !.is_reachable = b,
                              !.pc = IF b THEN "rinv" ELSE "unreachable"]
       \/ \E e \in XcatRequestErrors :
             gi' = [gi EXCEPT !.pc = "raised", !.exc = e]
    /\ UNCHANGED <<wfvars, early, ctx, rv, rg, cap, late>>

\* the reachable branch: _get_rinv_info, where ZVMXCATInternalError becomes
\* InstanceNotFound, then the inventory fields, where a malformed record
\* falls back to the flavor's values
GiInventory ==
    /\ gi.pc = "rinv"
    /\ \/ \E m \in {"rinv", "max_mem"} :
             gi' = [gi EXCEPT !.state = gi.power_stat, !.mem = m,
                              !.pc = "returned"]
       \/ \E e \in XcatRequestErrors :
             gi' = [gi EXCEPT !.pc = "raised",
                              !.exc = IF e.cls = "ZVMXCATInternalError"
                                         THEN Exc("InstanceNotFound", "")
                                      ELSE e]
    /\ UNCHANGED <<wfvars, early, ctx, rv, rg, cap, late>>

\* the else branch: rinv cannot ask a guest that is shut down or paused
GiUnreachable ==
    /\ gi.pc = "unreachable"
    /\ LET st == UnreachableState(gi.power_stat, gi.recorded)
       IN  gi' = [gi EXCEPT !.state = st,
                            !.mem = IF st = gi.power_stat THEN "zero"
                                    ELSE "max_mem",
                            !.pc = "returned"]
    /\ UNCHANGED <<wfvars, early, ctx, rv, rg, cap, late>>

\* no call has begun
(* ------------------------------ snapshot ------------------------------ *)
NoSn ==
    [pc |-> "idle", state |-> "NOSTATE", vm |-> "off", glance |-> FALSE,
     xcat_image |-> FALSE, path |-> "none", sent |-> 0, at |-> "none",
     exc |-> Ok]

SnRaise(c, step, e) == [c EXCEPT !.pc = "raised", !.at = step, !.exc = e]

\* the guest after self.power_on({}, instance, []): running once the
\* request was accepted
AfterPowerOn(vm, p) == IF p.accepted THEN "on" ELSE vm

\* errors of ZVMInstance.pause that _reset_power_state passes over
ResetPauseCaught ==
    {"ZVMXCATRequestFailed", "ZVMInvalidXCATResponseDataError",
     "ZVMXCATInternalError"}

\* _reset_power_state(state, instance): power on for RUNNING and PAUSED,
\* where InstancePowerOnFailure is only logged; then pause for PAUSED,
\* where the errors of the request are only logged
_reset_power_state(state, vm) ==
    IF state \notin {"RUNNING", "PAUSED"} THEN {[vm |-> vm, res |-> Ok]}
    ELSE UNION {
           LET v == AfterPowerOn(vm, p)
           IN  IF p.res # Ok /\ p.res.cls # "InstancePowerOnFailure"
                  THEN {[vm |-> v, res |-> p.res]}
               ELSE IF state # "PAUSED" THEN {[vm |-> v, res |-> Ok]}
               ELSE {[vm |-> IF r = Ok THEN "paused" ELSE v,
                      res |-> IF r = Ok \/ r.cls \in ResetPauseCaught
                                 THEN Ok ELSE r]
                     : r \in {Ok} \cup XcatRequestErrors}
           : p \in power_on }

\* snapshot of an instance whose record holds any power_state, for a
\* pre-created image record; NOSTATE, CRASHED and SUSPENDED are refused,
\* SHUTDOWN is powered on and PAUSED is unpaused for the capture
Snapshot ==
    /\ sn.pc = "idle"
    /\ \E st \in PowerStates :
          LET c == [NoSn EXCEPT !.state = st, !.vm = VmOf(st),
                                !.glance = TRUE]
          IN  IF st \in {"NOSTATE", "CRASHED", "SUSPENDED"}
                 THEN sn' = SnRaise(c, "check", Exc("InstanceNotReady", ""))
              ELSE IF st = "SHUTDOWN"
                 THEN \E p \in power_on :
                         LET c1 == [c EXCEPT !.vm = AfterPowerOn(c.vm, p),
                                             !.sent = 1]
                         IN  sn' = IF p.res = Ok
                                      THEN [c1 EXCEPT !.pc = "capture"]
                                   ELSE SnRaise(c1, "power_on", p.res)
              ELSE IF st = "PAUSED"
                 THEN \E u \in unpause :
                         LET c1 == [c EXCEPT !.vm = IF u.sent THEN "on" ELSE @,
                                             !.sent = 1]
                         IN  sn' = IF u.res = Ok
                                      THEN [c1 EXCEPT !.pc = "capture"]
                                   ELSE SnRaise(c1, "unpause", u.res)
              ELSE sn' = [c EXCEPT !.pc = "capture"]
    /\ UNCHANGED <<wfvars, early, later, rb, du, ng>>

\* except clause of the capture
SnCaptureCaught == {"ZVMImageError", "ZVMXCATXdshFailed"}

\* the first try statement: free space, prune, create_zvm_image and
\* update_last_use_date; a capture that failed may have stopped the guest
\* and may have left its image; the handler resets the power state and
\* then deletes the image record
SnCapture ==
    /\ sn.pc = "capture"
    /\ \/ sn' = [sn EXCEPT !.vm = CaptureLeaves(sn.vm), !.xcat_image = TRUE,
                           !.sent = 2, !.pc = "reset"]
       \/ \E e \in ImageErrors \cup {Exc("ZVMXCATXdshFailed", "")}
                   \cup XcatRequestErrors,
             v \in {sn.vm, CaptureLeaves(sn.vm)}, left \in BOOLEAN :
             LET c == [sn EXCEPT !.vm = v, !.xcat_image = left, !.sent = 2]
             IN  IF e.cls \in SnCaptureCaught
                    THEN \E r \in _reset_power_state(c.state, c.vm) :
                            sn' = SnRaise([c EXCEPT !.vm = r.vm,
                                                    !.glance = (r.res # Ok)],
                                          "capture",
                                          save_and_reraise_exception(e, r.res))
                 ELSE sn' = SnRaise(c, "capture", e)
    /\ UNCHANGED <<wfvars, early, later, rb, du, ng>>

\* self._reset_power_state(state, instance) after the capture
SnResetPowerState ==
    /\ sn.pc = "reset"
    /\ \E r \in _reset_power_state(sn.state, sn.vm) :
          sn' = IF r.res = Ok THEN [sn EXCEPT !.vm = r.vm, !.pc = "export"]
                ELSE SnRaise([sn EXCEPT !.vm = r.vm], "reset", r.res)
    /\ UNCHANGED <<wfvars, early, later, rb, du, ng>>

\* get_snapshot_time_path and get_image_from_xcat; the handler of
\* ZVMImageError deletes the image record, the path and the xCAT image
SnExport ==
    /\ sn.pc = "export"
    /\ LET c == [sn EXCEPT !.path = "made"]
       IN  \/ sn' = [c EXCEPT !.pc = "delete_image_from_xcat"]
           \/ \E e \in ImageErrors, d \in {Ok} \cup ImageErrors :
                 sn' = SnRaise([c EXCEPT !.glance = FALSE,
                                         !.path = "cleaned",
                                         !.xcat_image = (d # Ok)],
                               "export", save_and_reraise_exception(e, d))
           \/ \E e \in XcatRequestErrors : sn' = SnRaise(c, "export", e)
    /\ UNCHANGED <<wfvars, early, later, rb, du, ng>>

\* self._zvm_images.delete_image_from_xcat(image_name_xcat) after the
\* export, outside any try statement
SnDeleteImageFromXcat ==
    /\ sn.pc = "delete_image_from_xcat"
    /\ \/ sn' = [sn EXCEPT !.xcat_image = FALSE, !.pc = "untar"]
       \/ \E e \in ImageErrors :
             sn' = SnRaise(sn, "delete_image_from_xcat", e)
    /\ UNCHANGED <<wfvars, early, later, rb, du, ng>>

\* untar_image_bundle, parse_manifest_xml, get_image_file_name and
\* get_root_disk_units
SnUntar ==
    /\ sn.pc = "untar"
    /\ \/ sn' = [sn EXCEPT !.pc = "upload"]
       \/ \E e \in ImageErrors :
             sn' = SnRaise([sn EXCEPT !.glance = FALSE, !.path = "cleaned"],
                           "untar", e)
    /\ UNCHANGED <<wfvars, early, later, rb, du, ng>>

\* image_service.update under "except Exception", then
\* clean_up_snapshot_time_path
SnUpload ==
    /\ sn.pc = "upload"
    /\ \/ sn' = [sn EXCEPT !.path = "cleaned", !.pc = "returned"]
       \/ \E e \in {Exc("IOError", ""), Exc("ImageNotFound", "")} :
             sn' = SnRaise([sn EXCEPT !.glance = FALSE, !.path = "cleaned"],
                           "upload", e)
    /\ UNCHANGED <<wfvars, early, later, rb, du, ng>>

(* ------------------------------- reboot ------------------------------- *)
RebootTypes == {"SOFT", "HARD"}

NotActive == Exc("ZVMXCATInternalError", "Return Code: 200 Reason Code: 12")

\* replies of PUT rpower reset / reboot for a guest that is on, paused or
\* off: only a guest that is off is reported as not active
RebootReplies(vm) ==
    {Ok} \cup XcatRequestErrors \cup (IF vm = "off" THEN {NotActive} ELSE {})

\* has_reachable: the attribute _reachable exists; ZVMInstance.__init__
\* does not set it, _wait_for_reachable does
NoRb ==
    [pc |-> "idle", reboot_type |-> "SOFT", vm |-> "off",
     has_reachable |-> FALSE, reachable |-> FALSE, exc |-> Ok]

RbRaise(r, e) == [r EXCEPT !.pc = "raised", !.exc = e]

\* reboot(context, instance, network_info, reboot_type) of a guest in any
\* state: zvm_inst = ZVMInstance(instance)
Reboot ==
    /\ rb.pc = "idle"
    /\ \E t \in RebootTypes, v \in {"on", "paused", "off"} :
          rb' = [NoRb EXCEPT !.pc = "request", !.reboot_type = t, !.vm = v]
    /\ UNCHANGED <<wfvars, early, later, sn, du, ng>>

\* ZVMInstance.reboot and ZVMInstance.reset up to the wait: reset returns
\* at once on Return Code 200 / Reason Code 12 and re-raises anything else
RbRequest ==
    /\ rb.pc = "request"
    /\ \E r \in RebootReplies(rb.vm) :
          rb' = IF r = Ok THEN [rb EXCEPT !.vm = "on", !.pc = "wait"]
                ELSE IF rb.reboot_type = "HARD" /\ r = NotActive
                   THEN [rb EXCEPT !.pc = "check"]
                ELSE RbRaise(rb, r)
    /\ UNCHANGED <<wfvars, early, later, sn, du, ng>>

\* self._wait_for_reachable(): sets self._reachable
RbWaitForReachable ==
    /\ rb.pc = "wait"
    /\ \E w \in WaitReachableEnds :
          LET r == [rb EXCEPT !.has_reachable = TRUE,
                              !.reachable = (w.cls = "reachable")]
          IN  rb' = IF w.cls \in {"reachable", "timeout"}
                       THEN [r EXCEPT !.pc = "check"]
                    ELSE RbRaise(r, w)
    /\ UNCHANGED <<wfvars, early, later, sn, du, ng>>

\* "if not zvm_inst._reachable: raise InstanceRebootFailure"; reading an
\* attribute that was never set raises AttributeError
RbCheck ==
    /\ rb.pc = "check"
    /\ rb' = IF ~rb.has_reachable THEN RbRaise(rb, Exc("AttributeError", ""))
             ELSE IF ~rb.reachable
                THEN RbRaise(rb, Exc("InstanceRebootFailure", "timeout"))
             ELSE [rb EXCEPT !.pc = "returned"]
    /\ UNCHANGED <<wfvars, early, later, sn, du, ng>>

(* ---------------------------- delete_userid --------------------------- *)
\* _wait_for_unlock(self, zhcp_node, interval=10, timeout=600), in seconds
UnlockInterval == 10

UnlockTimeout == 600

\* the longest an is_locked query takes, in seconds
MaxLockProbe == 15

NoDu ==
    [pc |-> "idle", sends |-> 0, first |-> Ok, retry |-> Ok, now |-> 0,
     expiration |-> 0, dur |-> 0, waited |-> "none", at |-> "none",
     exc |-> Ok]

DuFrame ==
    UNCHANGED <<op, pc, exc, args, done, comps, info, failedAt, orig, last,
                calls, early, later, sn, rb, ng>>

\* is_locked: the answer of Image_Lock_Query_DM, or the error of the xdsh
IsLockedAnswers == {"locked", "unlocked", "error"}

\* delete_userid: the first DELETE and the except clauses up to the wait
DeleteUserid ==
    /\ du.pc = "idle"
    /\ \E r \in RmvmReplies(node, users, InstName) :
          LET u == [du EXCEPT !.sends = 1, !.first = r]
          IN  IF r = Ok
                 THEN /\ node' = RmvmEffect(node, users, InstName).node
                      /\ users' = RmvmEffect(node, users, InstName).users
                      /\ reqs' = reqs \cup {Req("rmvm", InstName)}
                      /\ du' = [u EXCEPT !.pc = "returned"]
              ELSE IF r.cls = "ZVMXCATInternalError"
                      /\ r.msg = "Return Code: 400 Reason Code: 4"
                 THEN \E o \in delete_xcat_node(node, users, InstName) :
                         /\ node' = o.node
                         /\ users' = o.users
                         /\ reqs' = reqs \cup {Req("rmvm", InstName)}
                                         \cup o.reqs
                         /\ du' = IF o.res = Ok
                                     THEN [u EXCEPT !.pc = "returned"]
                                  ELSE [u EXCEPT !.pc = "raised",
                                                 !.at = "delete_xcat_node",
                                                 !.exc = o.res]
              ELSE /\ UNCHANGED <<node, users>>
                   /\ reqs' = reqs \cup {Req("rmvm", InstName)}
                   /\ du' = IF Locked(r)
                               THEN [u EXCEPT !.pc = "wait",
                                              !.expiration = UnlockTimeout]
                            ELSE IF r.cls = "ZVMXCATRequestFailed"
                                    /\ r.msg = "Invalid nodes and/or groups; Forbidden"
                               THEN [u EXCEPT !.pc = "returned"]
                            ELSE [u EXCEPT !.pc = "raised", !.at = "delete",
                                           !.exc = r]
    /\ DuFrame

\* one call of _wait_unlock by the timer
DuWaitUnlock ==
    /\ du.pc = "wait"
    /\ IF du.now > du.expiration
          THEN du' = [du EXCEPT !.waited = "timeout", !.pc = "retry"]
       ELSE \E a \in IsLockedAnswers, d \in {0, MaxLockProbe} :
               LET u == [du EXCEPT !.now = @ + d, !.dur = d]
               IN  du' = IF a = "unlocked"
                            THEN [u EXCEPT !.waited = "unlocked",
                                           !.pc = "retry"]
                         ELSE IF a = "locked" THEN [u EXCEPT !.pc = "sleep"]
                         ELSE [u EXCEPT !.pc = "raised", !.at = "is_locked",
                                        !.exc = Exc("ZVMXCATXdshFailed", "")]
    /\ UNCHANGED <<node, users, reqs>>
    /\ DuFrame

\* FixedIntervalLoopingCall sleeps for what is left of the interval
DuSleep ==
    /\ du.pc = "sleep"
    /\ du' = [du EXCEPT !.now = @ + (IF du.dur < UnlockInterval
                                        THEN UnlockInterval - du.dur ELSE 0),
                        !.pc = "wait"]
    /\ UNCHANGED <<node, users, reqs>>
    /\ DuFrame

\* the second zvmutils.xcat_request("DELETE", url), inside the except
\* clause: whatever it raises leaves delete_userid
DuRetry ==
    /\ du.pc = "retry"
    /\ \E r \in RmvmReplies(node, users, InstName) :
          /\ du' = [du EXCEPT !.sends = @ + 1, !.retry = r,
                              !.pc = IF r = Ok THEN "returned" ELSE "raised",
                              !.at = IF r = Ok THEN "none" ELSE "retry",
                              !.exc = r]
          /\ node' = IF r = Ok THEN RmvmEffect(node, users, InstName).node
                     ELSE node
          /\ users' = IF r = Ok THEN RmvmEffect(node, users, InstName).users
                      ELSE users
    /\ UNCHANGED reqs
    /\ DuFrame

(* --------------------------- _is_nic_granted -------------------------- *)
\* records of a user directory
MaxDir == 3

(* a record is the sequence of its words, which single blanks separate     *)
\* " w1 w2 " in rec: the words stand side by side with a word before them
\* and a word after them
InRec(words, rec) ==
    \E k \in 2..(Len(rec) - Len(words)) :
       SubSeq(rec, k, k + Len(words) - 1) = words

\* the records tried: a USER line, an empty line, NICDEF lines with and
\* without the coupling, with the coupling cut off at the end of the line,
\* with LAN alone, with NICDEF as the first word, and a line that names a
\* system LAN without NICDEF
DirectoryRecords ==
    {<<>>,
     <<"os01:", "USER", "OS01">>,
     <<"os01:", "NICDEF", "1000", "TYPE", "QDIO">>,
     <<"os01:", "NICDEF", "1000", "LAN", "SYSTEM", "VSW1">>,
     <<"os01:", "NICDEF", "1003", "LAN", "SYSTEM">>,
     <<"os01:", "NICDEF", "1006", "LAN", "USER1", "VSW1">>,
     <<"NICDEF", "1000", "LAN", "SYSTEM", "VSW1">>,
     <<"os01:", "SPECIAL", "LAN", "SYSTEM", "VSW1">>}

\* a test for the word LAN alone
IsCoupledToAnyLan(rec) == InRec(<<"LAN">>, rec)

\* " LAN SYSTEM " in rec
IsCoupled(rec) == InRec(<<"LAN", "SYSTEM">>, rec)

NoNg ==
    [pc |-> "idle", dict_list |-> <<>>, k |-> 0, all_granted |-> FALSE,
     result |-> FALSE, exc |-> Ok]

\* dict_list = self._get_user_directory(inst_name); _all_granted = False;
\* split("\n") returns at least one record
IsNicGranted ==
    /\ ng.pc = "idle"
    /\ \/ \E d \in BoundedSeq(DirectoryRecords, MaxDir) \ {<<>>} :
             ng' = [NoNg EXCEPT !.pc = "loop", !.dict_list = d]
       \/ \E e \in XcatRequestErrors :
             ng' = [NoNg EXCEPT !.pc = "raised", !.exc = e]
    /\ UNCHANGED <<wfvars, early, later, sn, rb, du>>

\* one turn of "for rec in dict_list", and the return after the last
NgRecord ==
    /\ ng.pc = "loop"
    /\ IF ng.k = Len(ng.dict_list)
          THEN ng' = [ng EXCEPT !.pc = "returned", !.result = ng.all_granted]
       ELSE LET rec == ng.dict_list[ng.k + 1]
                n   == [ng EXCEPT !.k = @ + 1]
            IN  IF InRec(<<"NICDEF">>, rec)
                   THEN IF IsCoupled(rec)
                           THEN ng' = [n EXCEPT !.all_granted = TRUE]
                        ELSE ng' = [n EXCEPT !.all_granted = FALSE,
                                             !.pc = "returned",
                                             !.result = FALSE]
                ELSE ng' = n
    /\ UNCHANGED <<wfvars, early, later, sn, rb, du>>

InitIdle ==
    /\ op = "none"
    /\ pc = "idle"
    /\ exc = Ok
    /\ args = NoArgs
    /\ done = <<>>
    /\ comps = <<>>
    /\ reqs = {}
    /\ info = NoInfo
    /\ failedAt = "none"
    /\ orig = Ok
    /\ last = NoCall
    /\ calls = 0
    /\ poll = NoPoll
    /\ mig = NoMig
    /\ lm = NoLm
    /\ vd = NoVd
    /\ ctx = NoCtx
    /\ rv = NoRv
    /\ rg = NoRg
    /\ cap = NoCap
    /\ gi = NoGi
    /\ sn = NoSn
    /\ rb = NoRb
    /\ du = NoDu
    /\ ng = NoNg

Init ==
    /\ node \in { [n \in NodeNames |-> NoNode] }
                 \cup { [n \in NodeNames |->
                           IF n = InstName
                              THEN [userid |-> u, hcp |-> ThisHcp,
                                    hosts |-> TRUE]
                           ELSE NoNode] : u \in Userids }
    /\ users = IF node[InstName] = NoNode THEN {}
               ELSE {node[InstName].userid}
    /\ InitIdle

Next ==
    \/ Destroy
    \/ Spawn
    \/ SpawnCreateXcatNode
    \/ SpawnPresetNetwork
    \/ SpawnImportImage
    \/ SpawnCreateUserid
    \/ SpawnUpdateNodeInfo
    \/ SpawnCreateNic
    \/ SpawnDeployNode
    \/ SpawnPunchFiles
    \/ SpawnWaitForAddnic
    \/ SpawnAttachVolume
    \/ SpawnPowerOn
    \/ SpawnExcept
    \/ SpawnUpdateLastUseDate
    \/ FinishMigration
    \/ FmCleanNetwork
    \/ FmCleanBundle
    \/ FmCopyXcatNode
    \/ FmUpdateNodeDef
    \/ FmExceptImage
    \/ FmCreateXcatNode
    \/ FmCopyImage
    \/ FmPutImageToXcat
    \/ FmPresetNetwork
    \/ FmCreateUserid
    \/ FmPunchEphInfoFile
    \/ FmAddNic
    \/ FmDeploy
    \/ FmExcept1
    \/ FmDeleteImage
    \/ FmPunchXcatAuthFile
    \/ FmPowerOn
    \/ FmAttachVolume
    \/ FmPowerOff
    \/ FmExcept2
    \/ Finish

Spec == Init /\ [][Next]_vars

InitPoll == Init /\ node[InstName] = NoNode

NextPoll ==
    \/ PollStart
    \/ PollCall
    \/ PollSleep

SpecPoll == InitPoll /\ [][NextPoll]_vars

NextMig ==
    \/ MigrateDiskAndPowerOff
    \/ MigPowerState
    \/ MigGetUserid
    \/ MigCheckShrink
    \/ MigGetEphDiskInfo
    \/ MigDetachVolume
    \/ MigCapture

SpecMig == InitPoll /\ [][NextMig]_vars

InitLm == Init /\ node[InstName] # NoNode

NextLm ==
    \/ CheckCanLiveMigrateSource
    \/ PreLiveMigration
    \/ LiveMigration
    \/ LmMove
    \/ LmCleanSource
    \/ LmPost

SpecLm == InitLm /\ [][NextLm]_vars

NextVd ==
    \/ VdStart
    \/ VdCreateNic
    \/ VdPunchEph

SpecVd == InitPoll /\ [][NextVd]_vars

NextCtx ==
    \/ CtxDumps
    \/ CtxLoads

SpecCtx == InitPoll /\ [][NextCtx]_vars

InitRv ==
    /\ node \in RvDomains
    /\ users = UseridsOf(node)
    /\ InitIdle

NextRv ==
    \/ ConfirmMigration
    \/ FinishRevertMigration
    \/ RvRestore
    \/ RvReconfigure
    \/ RvIsNicGranted
    \/ RvCleanupImage
    \/ RvAttachVolume
    \/ RvPowerOn

SpecRv == InitRv /\ [][NextRv]_vars

NextRg ==
    \/ ReGrantUser
    \/ RgPort
    \/ RgFlush

SpecRg == InitPoll /\ [][NextRg]_vars

NextCap ==
    \/ CaptureDiskForInstance
    \/ CapGetProvmethod
    \/ CapRelabel
    \/ CapCreateZvmImage
    \/ CapRestore
    \/ CapUpdateLastUseDate
    \/ CapExport

SpecCap == InitLm /\ [][NextCap]_vars

NextGi ==
    \/ GetInfo
    \/ GiIsReachable
    \/ GiInventory
    \/ GiUnreachable

SpecGi == InitLm /\ [][NextGi]_vars

NextSn ==
    \/ Snapshot
    \/ SnCapture
    \/ SnResetPowerState
    \/ SnExport
    \/ SnDeleteImageFromXcat
    \/ SnUntar
    \/ SnUpload

SpecSn == InitLm /\ [][NextSn]_vars

NextRb ==
    \/ Reboot
    \/ RbRequest
    \/ RbWaitForReachable
    \/ RbCheck

SpecRb == Init /\ [][NextRb]_vars

NextDu ==
    \/ DeleteUserid
    \/ DuWaitUnlock
    \/ DuSleep
    \/ DuRetry

SpecDu == Init /\ [][NextDu]_vars

NextNg ==
    \/ IsNicGranted
    \/ NgRecord

SpecNg == InitLm /\ [][NextNg]_vars

\* the waits of the driver, one at a time
NextWaits ==
    \/ du.pc = "idle" /\ PollStart
    \/ PollCall
    \/ PollSleep
    \/ poll.pc = "idle" /\ DeleteUserid
    \/ DuWaitUnlock
    \/ DuSleep
    \/ DuRetry

\* the timer of a FixedIntervalLoopingCall calls its function again after
\* every sleep until LoopingCallDone or an exception
SpecWaits ==
    /\ Init
    /\ [][NextWaits]_vars
    /\ WF_vars(PollCall)
    /\ WF_vars(PollSleep)
    /\ WF_vars(DuWaitUnlock)
    /\ WF_vars(DuSleep)


(* ------------------------------ claims -------------------------------- *)
InSeq(x, s) == \E i \in DOMAIN s : s[i] = x

IsPrefix(s, t) == Len(s) <= Len(t) /\ SubSeq(t, 1, Len(s)) = s

Workflows == {"spawn", "finish_migration"}

\* the compensations the step list of spawn pairs with the steps completed:
\* destroy once create_userid completed, else delete_xcat_node once
\* create_xcat_node completed
PairedWithDone ==
    IF InSeq("create_userid", done) THEN <<"destroy">>
    ELSE IF InSeq("create_xcat_node", done) THEN <<"delete_xcat_node">>
    ELSE <<>>

Fm1Order(a) ==
    <<"delete_image_from_xcat">>
    \o (IF a.same_xcat_mn THEN <<>> ELSE <<"clean_mac_switch_host">>)
    \o <<"delete_userid", "delete_xcat_node">>
    \o (IF a.same_xcat_mn
           THEN <<"copy_xcat_node", "delete_xcat_node",
                  "_reconfigure_networking", "power_on">>
        ELSE <<>>)

\* the handler of lines 1667-1673 in the order of its statements
Fm2Order(a) ==
    <<"destroy">>
    \o (IF a.same_xcat_mn THEN <<"copy_xcat_node", "delete_xcat_node">>
        ELSE <<>>)

FmTry1Steps ==
    {"preset_network", "create_userid", "punch_eph_info_file", "create_nic",
     "deploy"}

FmTry2Steps ==
    {"punch_xcat_auth_file", "power_on", "attach_volume", "power_off"}

C2_SpawnFailureLeavesNothing ==
    (op = "spawn" /\ pc = "raised" /\ exc = orig)
    => Absent(node, users, InstName)

SpawnStepsFromCreateUserid ==
    {"create_userid", "update_node_info", "create_nic", "deploy_node",
     "punch_files", "wait_for_addnic", "attach_volume", "power_on"}

\* C3: a failure of spawn at create_userid or at any later step of the try
\* statement runs destroy before the failure is re-raised
C3_DestroyFromCreateUseridOn ==
    (op = "spawn" /\ pc = "raised" /\ failedAt \in SpawnStepsFromCreateUserid)
    => InSeq("destroy", comps)

\* C4: a call of destroy for a name that has no xCAT node, the lookup having
\* answered, returns without error, sends no mutating request and leaves
\* the remote domain as it was, so that the next call finds the same
C4_DestroyNotFoundSucceeds ==
    [][(op = "none" /\ op' = "destroy" /\ node[InstName] = NoNode
        /\ info'.found # "error")
       => /\ pc' = "returned"
          /\ exc' = Ok
          /\ reqs' = {}
          /\ node' = node
          /\ users' = users]_vars

\* destroy returned for a name not found, twice in succession
C4_Witness ==
    /\ last = [op |-> "destroy", res |-> "returned", found |-> "no"]
    /\ op = "destroy"
    /\ pc = "returned"
    /\ info.found = "no"
    /\ reqs = {}

\* C5: when destroy found the instance and detaching a volume or cleaning
\* the network records failed, delete_userid was still called
C5_DeleteAfterFailedCleanup ==
    (op = "destroy" /\ info.found = "yes"
     /\ (info.detachFailed \/ info.cleanFailed))
    => info.ranDelete

\* both cleanups failed and destroy still removed the userid and returned
C5_Witness ==
    /\ op = "destroy"
    /\ pc = "returned"
    /\ info.detachFailed
    /\ info.cleanFailed
    /\ info.ranDelete
    /\ InstName \notin users

C9_OriginalFailureSurfaces ==
    (op \in Workflows /\ pc = "raised"
     /\ (op = "spawn" \/ failedAt \in FmTry1Steps \cup FmTry2Steps))
    => exc = orig

\* C10: same xCAT MN, finish_migration failed at a step of the first try
\* statement: the node of the original name names the old userid again, the
\* 'rsz' node is gone and the new userid does not exist
C10_SameMnFailureRestores ==
    (op = "finish_migration" /\ pc = "raised" /\ args.same_xcat_mn
     /\ failedAt \in FmTry1Steps)
    => /\ node[InstName] # NoNode
       /\ node[InstName].userid = args.old_userid
       /\ node[RszName(InstName)] = NoNode
       /\ new_userid \notin users

\* errors the taxonomy calls transient: the request did not get through
TransientRemoteError == {"ZVMXCATRequestFailed"}

\* the response lacks the expected fields
RemoteResponseMalformed == {"ZVMInvalidXCATResponseDataError"}

\* C7: a poller ends with success when a probe made before the deadline
\* answers as wanted, ends without it only after the deadline, and does not
\* raise when the probe fails with a transient error
C7_PollerNeverRaisesOnTransient ==
    /\ (poll.pc = "done" /\ poll.answer # Wanted(poll.kind)) => Expired(poll)
    /\ (poll.kind = "_wait_for_reachable" /\ poll.answer = "True")
       => poll.reachable /\ poll.pc = "done"
    /\ poll.answer \in TransientRemoteError => poll.pc # "raised"

C11_SameMnLateFailureRestores ==
    (op = "finish_migration" /\ pc = "raised" /\ args.same_xcat_mn
     /\ failedAt \in FmTry2Steps /\ comps \in {<<>>, Fm2Order(args)})
    => /\ node[InstName] # NoNode
       /\ node[InstName].userid = args.old_userid
       /\ new_userid \notin users

FmCrossStepsAfterCreate ==
    {"update_node_def", "copy_image", "put_image_to_xcat"} \cup FmTry1Steps

\* C12: another xCAT MN, finish_migration failed at a step after
\* create_xcat_node: the new node and the new userid are deleted again and
\* no request was sent for the 'rsz' name of the original
C12_CrossMnFailureDeletesNew ==
    (op = "finish_migration" /\ pc = "raised" /\ ~args.same_xcat_mn
     /\ failedAt \in FmCrossStepsAfterCreate)
    => /\ node[InstName] = NoNode
       /\ new_userid \notin users
       /\ \A r \in reqs : r.tgt # RszName(InstName)

\* C13: when migrate_disk_and_power_off rejects a shrink request, whatever
\* the recorded power state, no state-changing request (power-on, unpause,
\* volume detach, capture) has been sent
C13_ShrinkRejectedBeforeMutation ==
    (mig.pc = "raised" /\ mig.exc = ShrinkError) => mig.reqs = <<>>

C14_SourceCleanedOnlyAcrossMn ==
    (lm.call = "live_migration" /\ lm.pc = "returned")
    => /\ lm.at = "dest"
       /\ IF lm.same_mn
             THEN /\ reqs = {}
                  /\ node[InstName] # NoNode
                  /\ node[InstName].hosts
          ELSE /\ node[InstName] = NoNode
               /\ Req("clean_mac_switch_host", InstName) \in reqs
               /\ Req("rmdef", InstName) \in reqs

\* a move across management nodes returned
C14_Witness ==
    /\ lm.call = "live_migration"
    /\ lm.pc = "returned"
    /\ ~lm.same_mn
    /\ node[InstName] = NoNode

\* the failure of the 'test' relocation carries the code 1944
Carries1944(l) ==
    IF l.reply.err # Ok THEN l.reply.err.msg = "1944"
    ELSE Has1944(l.reply.info)

\* C15: check_can_live_migrate_source returns after a failed 'test'
\* relocation only when the failure carries 1944 and the force setting
\* holds 'domain' or 'architecture'; every other failed 'test', and a
\* missing dest_host, is a MigrationPreCheckError
C15_PrecheckPassesOnlyForced1944 ==
    (lm.call = "check_can_live_migrate_source" /\ lm.userid_ok
     /\ lm.pc \in {"returned", "raised"})
    => IF lm.dest_host /\ lm.relocate = Ok THEN lm.pc = "returned"
       ELSE IF lm.dest_host /\ Carries1944(lm) /\ ForceIgnores(lm.force)
          THEN lm.pc = "returned"
       ELSE lm.pc = "raised" /\ lm.exc = PreCheckError

\* the last record of the response holds 'Done'
TrailingDone(reply) ==
    /\ reply.err = Ok
    /\ Len(reply.info) > 0
    /\ \E k \in DOMAIN reply.info[Len(reply.info)] :
          reply.info[Len(reply.info)][k] = "Done"

\* C16: the move succeeds only if the last record of the response holds
\* 'Done'; after any other response live_migration raises MigrationError,
\* has called recover_method exactly once, has not cleaned the source and has
\* not called post_method
C16_MoveFailureRecoversOnce ==
    (lm.call = "live_migration" /\ lm.relocate # NotTried)
    => /\ lm.relocate = Ok => TrailingDone(lm.reply)
       /\ ~TrailingDone(lm.reply)
             => /\ lm.pc = "raised"
                /\ lm.exc.cls = "MigrationError"
                /\ lm.recovers = 1
                /\ lm.posts = 0
                /\ reqs = {}
                /\ node[InstName] # NoNode

C18_ReturnsOnlyPoweredOnReachable ==
    (op = "spawn" /\ pc = "returned") => info.accepted /\ info.reachable

\* C19: when a precondition of spawn fails (boot from volume, no network
\* interface, invalid image) no step has run, no request has been sent, the
\* instance is as absent as before and no compensation has run
C19_RejectedBeforeAnyMutation ==
    (op = "spawn" /\ failedAt = "validate")
    => /\ exc.cls \in {"ZVMDriverError", "ZVMImageError"}
       /\ done = <<>>
       /\ comps = <<>>
       /\ reqs = {}
       /\ Absent(node, users, InstName)

\* spawn rejected an invalid image
C19_Witness ==
    /\ op = "spawn"
    /\ pc = "raised"
    /\ failedAt = "validate"
    /\ exc.cls = "ZVMImageError"
    /\ args.nvif > 0

\* the two lists of ephemeral disks hold equal entries
SameEphDisks(a, b) ==
    /\ Len(a) = Len(b)
    /\ \A i \in DOMAIN a :
          \A f \in DOMAIN a[i] : f \in DOMAIN b[i] /\ PyEq(a[i][f], b[i][f])

RegistrationRequests == {"mkdef", "rmdef", "rmvm"}

\* C22: when confirm_migration returns on the xCAT MN that holds the retained
\* node, the 'rsz' instance is destroyed and the resized instance under the
\* original name is untouched; on the other xCAT MN the image the migration
\* left has been discarded
C22_ConfirmDiscardsRetained ==
    (rv.call = "confirm_migration" /\ rv.pc = "returned")
    => IF rv.same
          THEN /\ node[RszName(InstName)] = NoNode
               /\ rv.node0[RszName(InstName)].userid \notin users
               /\ node[InstName] = rv.node0[InstName]
               /\ node[InstName] # NoNode => node[InstName].userid \in users
               /\ \A r \in reqs : r.tgt = RszName(InstName)
       ELSE /\ rv.cleaned
            /\ Req("cleanup_image", InstName) \in reqs

\* the retained node was destroyed next to a resized instance
C22_Witness ==
    /\ rv.call = "confirm_migration"
    /\ rv.pc = "returned"
    /\ rv.same
    /\ node[InstName] # NoNode
    /\ Req("rmvm", RszName(InstName)) \in reqs

\* C23: finish_revert_migration on the xCAT MN that holds the retained node
\* restores it under the original name and removes the 'rsz' node,
\* re-configures networking, and raises MigrationError with no volume
\* attached and no power-on when the NICs are not granted; on the other xCAT
\* MN it discards the image and sends no request that changes a registration
C23_RevertRestoresRetained ==
    rv.call = "finish_revert_migration"
    => /\ (rv.same /\ rv.pc \in {"reconfigure", "is_nic_granted",
                                 "attach_volume", "power_on", "returned"})
             => /\ node[InstName] # NoNode
                /\ node[InstName].userid = rv.node0[RszName(InstName)].userid
                /\ node[RszName(InstName)] = NoNode
       /\ (rv.same /\ rv.pc \in {"attach_volume", "power_on", "returned"})
             => /\ Req("preset_network", InstName) \in reqs
                /\ Req("create_nic", InstName) \in reqs
                /\ rv.granted = "yes"
       /\ rv.granted = "no"
             => /\ rv.pc = "raised"
                /\ rv.exc.cls = "MigrationError"
                /\ rv.attached = 0
                /\ ~rv.powered
                /\ Req("attach_volume", InstName) \notin reqs
                /\ Req("rpower on", InstName) \notin reqs
       /\ ~rv.same
             => /\ node = rv.node0
                /\ \A r \in reqs : r.rq \notin RegistrationRequests
                /\ rv.pc \in {"attach_volume", "power_on", "returned"}
                      => rv.cleaned

\* the retained node was restored and the NICs were not granted
C23_Witness ==
    /\ rv.call = "finish_revert_migration"
    /\ rv.same
    /\ rv.granted = "no"
    /\ rv.pc = "raised"
    /\ node[InstName] # NoNode
    /\ node[RszName(InstName)] = NoNode

\* C24: no command re_grant_user sends holds more than
\* _MAX_REGRANT_USER_NUMBER grant records, whatever the port table, ports
\* with a vlan_id that is no number and failed batches included
C24_BatchSizeBounded ==
    rg.largest <= _MAX_REGRANT_USER_NUMBER

\* C25: with zvm_reachable_timeout = 0 the three pollers never give up on
\* the deadline: a wait that ends without an error ends on the answer it
\* waits for, and until then every call of the timer probes again
C25_NoLimitNeverExpires ==
    poll.timeout = 0
    => /\ ~Expired(poll)
       /\ poll.pc = "done" => /\ poll.answer = Wanted(poll.kind)
                              /\ poll.attempts > 0

\* a wait without limit that was still probing after its expiration time
\* and ended on the wanted answer
C25_Witness ==
    /\ poll.timeout = 0
    /\ poll.kind = "_wait_for_nic_update"
    /\ poll.pc = "done"
    /\ poll.attempts > 1
    /\ poll.now > poll.expiration

Repeat(x, n) == [i \in 1..n |-> x]

\* the forward steps of one spawn in the order of the source
SpawnOrder(a) ==
    <<"create_xcat_node", "preset_network", "import_image", "create_userid",
      "update_node_info">> \o Repeat("create_nic", a.nvif)
    \o <<"deploy_node", "punch_files", "wait_for_addnic">>
    \o Repeat("attach_volume", a.nvol)
    \o <<"power_on", "update_last_use_date">>

Range(s) == {s[i] : i \in DOMAIN s}

Issued(step) == step \in Range(done) \/ failedAt = step

\* C26: the forward steps of spawn run in one fixed order, each phase once;
\* power-on is issued only after _is_nic_granted answered true and every
\* requested volume was attached
C26_SpawnFixedOrder ==
    (op = "spawn" /\ failedAt # "validate")
    => /\ IsPrefix(done, SpawnOrder(args))
       /\ (failedAt \notin {"none", "validate"} /\ Len(done) < Len(SpawnOrder(args)))
          => failedAt = SpawnOrder(args)[Len(done) + 1]
       /\ (Issued("power_on") \/ pc = "power_on")
          => /\ "wait_for_addnic" \in Range(done)
             /\ VolumesAttached = args.nvol

\* a spawn with volumes that has issued the power-on
C26_Witness ==
    /\ op = "spawn"
    /\ args.nvol = MaxVol
    /\ args.nvif = MaxVif
    /\ "power_on" \in Range(done)
    /\ pc = "returned"

\* the NICs were not granted when spawn asked after the wait
NicsNotGranted ==
    /\ op = "spawn"
    /\ failedAt = "wait_for_addnic"
    /\ orig.cls = "ZVMNetworkError"

\* C27: NICs not granted within the timeout: spawn raises ZVMNetworkError,
\* destroy of the partial instance runs, neither volume attach nor power-on
\* is issued
C27_NotGrantedUnwinds ==
    (NicsNotGranted /\ pc = "raised")
    => /\ exc.cls = "ZVMNetworkError"
       /\ comps = <<"destroy">>
       /\ ~Issued("attach_volume")
       /\ ~Issued("power_on")

\* node registration or image staging failed
NodeOrImageFailed ==
    /\ op = "spawn"
    /\ failedAt \in {"create_xcat_node", "import_image"}
    /\ orig.cls \in {"ZVMXCATCreateNodeFailed", "ZVMImageError"}

\* C28: after ZVMXCATCreateNodeFailed or ZVMImageError spawn calls
\* delete_xcat_node once, does not run destroy, and re-raises the original
\* error
C28_NodeFailureDeletesRegistration ==
    (NodeOrImageFailed /\ pc = "raised")
    => /\ comps = <<"delete_xcat_node">>
       /\ exc = orig

\* C29: whenever _capture_disk_for_instance ends, by returning or by a
\* failure of the capture or of the export, the provisioning method of the
\* node is the one it had before the capture
C29_ProvmethodRestored ==
    (cap.pc = "returned"
     \/ (cap.pc = "raised" /\ cap.at \in {"create_zvm_image", "export"}))
    => cap.provmethod = cap.before

\* C30: get_info returns PAUSED exactly when the instance is not reachable,
\* the remote domain reports RUNNING and the recorded power state is PAUSED;
\* in every other case it returns the state the remote domain reports
C30_PausedOnlyInferred ==
    gi.pc = "returned"
    => LET inferred == /\ ~gi.is_reachable
                       /\ gi.power_stat = "RUNNING"
                       /\ gi.recorded = "PAUSED"
       IN  /\ gi.state = "PAUSED" <=> inferred
           /\ ~inferred => gi.state = gi.power_stat

\* get_info has returned PAUSED for a guest reported as RUNNING
C30_Witness ==
    /\ gi.pc = "returned"
    /\ gi.state = "PAUSED"
    /\ gi.power_stat = "RUNNING"
    /\ ~gi.is_reachable

\* C31: pre_live_migration raises MigrationError exactly when the instance
\* has persistent volumes attached (block_device_info is not empty) and
\* accepts the migration when no volume is attached
C31_RejectsExactlyWithVolumes ==
    (lm.call = "pre_live_migration" /\ lm.pc \in {"returned", "raised"})
    => /\ lm.exc.cls = "MigrationError" <=> ~lm.bdi_empty
       /\ lm.bdi_empty => lm.pc = "returned"

\* C32: snapshot leaves the instance in the power state it had: after it
\* returns or after the capture fails the guest is as its recorded state
\* says, and for NOSTATE, CRASHED and SUSPENDED it raises InstanceNotReady
\* with no request sent
C32_PowerStateKept ==
    /\ (sn.pc = "returned" \/ (sn.pc = "raised" /\ sn.at = "capture"))
       => sn.vm = VmOf(sn.state)
    /\ (sn.pc # "idle" /\ sn.state \in {"NOSTATE", "CRASHED", "SUSPENDED"})
       => /\ sn.pc = "raised"
          /\ sn.exc.cls = "InstanceNotReady"
          /\ sn.sent = 0

\* C33: when snapshot fails at the capture, the export, the untar or the
\* upload, the image record is deleted and the captured image is not left
\* in xCAT
C33_FailureDeletesImageRecord ==
    (sn.pc = "raised" /\ sn.at \in {"capture", "export", "untar", "upload"})
    => /\ ~sn.glance
       /\ ~sn.xcat_image

\* C34: every live_migration that ends has invoked exactly one of the two
\* callbacks, once: post_method when the move and the source cleanup
\* succeeded, recover_method otherwise; post_method only after the cleanup
C34_ExactlyOneCallback ==
    /\ (lm.call = "live_migration" /\ lm.pc \in {"returned", "raised"})
       => /\ lm.posts + lm.recovers = 1
          /\ lm.posts = 1 <=> lm.pc = "returned"
    /\ (lm.call = "live_migration" /\ lm.posts > 0 /\ ~lm.same_mn)
       => node[InstName] = NoNode

\* C35: reboot, SOFT or HARD, either returns with the instance observed
\* reachable or raises InstanceRebootFailure, also for a hard reset of a
\* guest that is shut down (Return Code 200 / Reason Code 12)
C35_RebootTwoOutcomes ==
    /\ rb.pc = "returned" => rb.reachable
    /\ rb.pc = "raised" => rb.exc.cls = "InstanceRebootFailure"

\* the first DELETE was answered with Return Code 400 and Reason Code 16
\* or 12
LockReported ==
    /\ du.sends > 0
    /\ du.first.cls = "ZVMXCATInternalError"
    /\ du.first.msg \in {"Return Code: 400 Reason Code: 16",
                         "Return Code: 400 Reason Code: 12"}

DuEnded == du.pc \in {"returned", "raised"}

\* C36 as stated: every delete_userid that met a lock has sent the delete
\* a second time when it ends
C36_LockedAlwaysRetried ==
    (LockReported /\ DuEnded) => du.sends = 2

\* C36 amended: a delete_userid that met a lock retries the delete exactly
\* once after the wait ended on "unlocked" or on the deadline, the retry's
\* failure is what it raises, and no call sends the delete more than
\* twice; when is_locked itself fails the call ends without a retry
C36_LockedRetriedOnce ==
    /\ du.sends <= 2
    /\ du.sends = 2 => LockReported /\ du.waited \in {"unlocked", "timeout"}
    /\ du.waited = "timeout" => du.now > UnlockTimeout
    /\ (LockReported /\ DuEnded)
       => \/ /\ du.sends = 2
             /\ du.exc = du.retry
             /\ du.pc = "raised" <=> du.retry # Ok
          \/ /\ du.sends = 1
             /\ du.pc = "raised"
             /\ du.at = "is_locked"

\* a locked guest whose wait ran to the deadline and whose retry failed
C36_Witness ==
    /\ LockReported
    /\ du.waited = "timeout"
    /\ du.sends = 2
    /\ du.pc = "raised"
    /\ Locked(du.retry)

\* a record with the word NICDEF between blanks
NicdefRecord(rec) == \E k \in 2..(Len(rec) - 1) : rec[k] = "NICDEF"

\* a record with the words LAN SYSTEM between blanks
SystemLanRecord(rec) ==
    \E k \in 2..(Len(rec) - 2) : rec[k] = "LAN" /\ rec[k + 1] = "SYSTEM"

\* C37: _is_nic_granted returns true if and only if the user directory
\* holds at least one NICDEF record and every NICDEF record is coupled to
\* a system LAN; without a NICDEF record it returns false
C37_GrantedIffAllCoupled ==
    ng.pc = "returned"
    => LET nics == {k \in DOMAIN ng.dict_list : NicdefRecord(ng.dict_list[k])}
       IN  ng.result <=> /\ nics # {}
                         /\ \A k \in nics : SystemLanRecord(ng.dict_list[k])

\* a directory of several records whose only NICDEF record is coupled
C37_Witness ==
    /\ ng.pc = "returned"
    /\ ng.result
    /\ Len(ng.dict_list) = MaxDir
    /\ \E k \in DOMAIN ng.dict_list : ~NicdefRecord(ng.dict_list[k])

\* C38: with a positive deadline every polling loop ends: _wait_for_unlock
\* always, and the three pollers of zvm_reachable_timeout whenever the
\* timeout is positive, whatever the probes answer or raise
C38_PositiveDeadlineEnds ==
    /\ (poll.pc \in {"call", "sleep"} /\ poll.timeout > 0)
       ~> (poll.pc \in {"done", "raised"})
    /\ (du.pc \in {"wait", "sleep"}) ~> (du.pc \in {"retry", "raised"})

\* a wait with a positive timeout whose probes never gave the wanted
\* answer, the last one raising a driver error, and which ended on the
\* deadline
C38_Witness ==
    /\ poll.kind = "_wait_for_addnic"
    /\ poll.timeout > 0
    /\ poll.pc = "done"
    /\ poll.attempts > 1
    /\ poll.answer \in ZVMBaseException
    /\ poll.now > poll.expiration

\* C39: when re_grant_user returns, the grant of every port with a userid
\* and a vswitch has been sent in exactly one command, none dropped and
\* none sent twice, also after a batch that failed and was only logged
C39_EachGrantSentOnce ==
    rg.pc = "returned"
    => /\ rg.delivered = rg.ports - rg.skipped
       /\ ~rg.twice

====
